---- MODULE Spec2Model ----
(***************************************************************************)
(* Search endpoint of allium-deploy (Cloudflare Pages Function).           *)
(* Strings are sequences of one-character strings, so that case folding,   *)
(* prefix tests, regular expressions and path construction are computed    *)
(* character by character as the JavaScript does.  An absent (undefined /  *)
(* null) or empty string is the empty sequence: the code only ever tests   *)
(* such values for truthiness.                                             *)
(***************************************************************************)
EXTENDS Integers, Sequences, FiniteSets, TLC

VARIABLES raw, storage, request, cachedIndex, cacheExpiry, now,
          result, response, fetchLog,
          calls, finished,
          env, edgeCache, contentRequest, contentHttp, contentResponse, consulted,
          day, TODAY, markers, syncLog, lastCall,
          failuresFile, run, runLog,
          backups, prune

\* the loadIndex calls in flight and the order in which they ended
loadVars == <<calls, finished>>

\* the content function: environment, edge cache, request (params.path, and
\* method, query string, X-Purge-Secret and body), response and the backends
\* it consulted
contentVars == <<env, edgeCache, contentRequest, contentHttp, contentResponse, consulted>>

\* the upload scripts: calendar day, the TODAY of the running script, the
\* marker files, the syncs run and the last call of a backup function
backupVars == <<day, TODAY, markers, syncLog, lastCall>>

\* the update script: the stored count of consecutive failures, the run in
\* progress and the runs that have ended
updateVars == <<failuresFile, run, runLog>>

\* the prune script: the backups of each location and the run in progress
pruneVars == <<backups, prune>>

vars == <<raw, storage, request, cachedIndex, cacheExpiry, now,
          result, response, fetchLog, loadVars, contentVars, backupVars,
          updateVars, pruneVars>>

(***************************************************************************)
(* Characters and JavaScript string primitives                             *)
(***************************************************************************)
LowerLetters ==
  <<"a","b","c","d","e","f","g","h","i","j","k","l","m",
    "n","o","p","q","r","s","t","u","v","w","x","y","z">>

UpperLetters ==
  <<"A","B","C","D","E","F","G","H","I","J","K","L","M",
    "N","O","P","Q","R","S","T","U","V","W","X","Y","Z">>

DigitChars == {"0","1","2","3","4","5","6","7","8","9"}

UpperSet == {UpperLetters[i] : i \in 1..26}

LowerSet == {LowerLetters[i] : i \in 1..26}

\* the ASCII case mappings, as tables
LowerOf == [c \in UpperSet |-> LowerLetters[CHOOSE i \in 1..26 : UpperLetters[i] = c]]

UpperOf == [c \in LowerSet |-> UpperLetters[CHOOSE i \in 1..26 : LowerLetters[i] = c]]

IsLower(c) == c \in LowerSet

IsUpper(c) == c \in UpperSet

IsDigit(c) == c \in DigitChars

HexChars == DigitChars \cup {"a","b","c","d","e","f","A","B","C","D","E","F"}

IsHex(c) == c \in HexChars

IsLetter(c) == IsLower(c) \/ IsUpper(c)

\* \w of a JavaScript regular expression without the u flag
IsWord(c) == IsLetter(c) \/ IsDigit(c) \/ c = "_"

\* \s, restricted to the white space an URL parameter can carry here
IsSpace(c) == c \in {" ", "\t", "\n"}

LowerChar(c) == IF IsUpper(c) THEN LowerOf[c] ELSE c

UpperChar(c) == IF IsLower(c) THEN UpperOf[c] ELSE c

toLowerCase(s) == [i \in 1..Len(s) |-> LowerChar(s[i])]

toUpperCase(s) == [i \in 1..Len(s) |-> UpperChar(s[i])]

startsWith(s, p) == Len(p) <= Len(s) /\ SubSeq(s, 1, Len(p)) = p

includes(s, p) == \E i \in 0..(Len(s) - Len(p)) : SubSeq(s, i + 1, i + Len(p)) = p

\* String.prototype.trim
trim(s) ==
  LET keep == {i \in 1..Len(s) : ~IsSpace(s[i])}
  IN  IF keep = {} THEN <<>>
      ELSE SubSeq(s, CHOOSE i \in keep : \A j \in keep : i <= j,
                     CHOOSE i \in keep : \A j \in keep : j <= i)

\* s.slice(0, n) of an array
slice(s, n) == SubSeq(s, 1, IF Len(s) < n THEN Len(s) ELSE n)

Rep(c, n) == [i \in 1..n |-> c]

\* String(n) for a non-negative integer: its decimal digits
DigitOf(d) == <<"0","1","2","3","4","5","6","7","8","9">>[d + 1]

RECURSIVE numToString(_)
numToString(n) ==
  IF n < 10 THEN <<DigitOf(n)>> ELSE Append(numToString(n \div 10), DigitOf(n % 10))

(***************************************************************************)
(* Precomputed constants                                                   *)
(***************************************************************************)
MAX_QUERY_LENGTH == 100

INDEX_CACHE_TTL_MS == 300000

MAX_RESULTS == 20

RE_ALLOWED_CHARS(q) ==
  /\ Len(q) >= 1
  /\ \A i \in 1..Len(q) : IsWord(q[i]) \/ IsSpace(q[i]) \/ q[i] \in {".", "-", ":", "@"}

RE_FULL_FINGERPRINT(q) == Len(q) = 40 /\ \A i \in 1..Len(q) : IsHex(q[i])

RE_PARTIAL_FINGERPRINT(q) ==
  Len(q) >= 6 /\ Len(q) <= 39 /\ \A i \in 1..Len(q) : IsHex(q[i])

\* the pattern without its i flag
RE_AS_NUMBER_caseSensitive(q) ==
  LET hasAS  == Len(q) >= 2 /\ SubSeq(q, 1, 2) = <<"A","S">>
      allDig(s) == Len(s) >= 1 /\ Len(s) <= 10 /\ \A i \in 1..Len(s) : IsDigit(s[i])
  IN  IF allDig(q) THEN <<q>>
      ELSE IF hasAS /\ allDig(SubSeq(q, 3, Len(q))) THEN <<SubSeq(q, 3, Len(q))>>
      ELSE <<>>

\* q.match(/^(?:AS)?(\d{1,10})$/i): <<digits>> (capture group 1) or <<>> (null)
RE_AS_NUMBER(q) ==
  LET hasAS  == Len(q) >= 2 /\ toUpperCase(SubSeq(q, 1, 2)) = <<"A","S">>
      allDig(s) == Len(s) >= 1 /\ Len(s) <= 10 /\ \A i \in 1..Len(s) : IsDigit(s[i])
  IN  IF allDig(q) THEN <<q>>
      ELSE IF hasAS /\ allDig(SubSeq(q, 3, Len(q))) THEN <<SubSeq(q, 3, Len(q))>>
      ELSE <<>>

RE_COUNTRY_CODE(q) == Len(q) = 2 /\ IsLetter(q[1]) /\ IsLetter(q[2])

\* /^(?:\d{1,3}\.){3}\d{1,3}$/
RE_IPV4(q) ==
  LET dots == {i \in 1..Len(q) : q[i] = "."}
      cuts == dots \cup {0, Len(q) + 1}
  IN  /\ Cardinality(dots) = 3
      /\ \A i \in 1..Len(q) : IsDigit(q[i]) \/ q[i] = "."
      /\ \A a \in cuts : \A b \in cuts :
           (a < b /\ ~\E c \in cuts : a < c /\ c < b) => (b - a - 1 \in 1..3)

RE_IPV6_CHARS(q) == Len(q) >= 1 /\ \A i \in 1..Len(q) : IsHex(q[i]) \/ q[i] = ":"

RE_SAFE_PATH(s) == Len(s) >= 1 /\ \A i \in 1..Len(s) : IsWord(s[i]) \/ s[i] = "-"

KNOWN_PLATFORMS ==
  { <<"l","i","n","u","x">>, <<"f","r","e","e","b","s","d">>,
    <<"w","i","n","d","o","w","s">>, <<"d","a","r","w","i","n">>,
    <<"o","p","e","n","b","s","d">>, <<"n","e","t","b","s","d">>,
    <<"s","u","n","o","s">> }

KNOWN_FLAGS ==
  { <<"a","u","t","h","o","r","i","t","y">>, <<"b","a","d","e","x","i","t">>,
    <<"e","x","i","t">>, <<"f","a","s","t">>, <<"g","u","a","r","d">>,
    <<"h","s","d","i","r">>, <<"n","a","m","e","d">>,
    <<"r","u","n","n","i","n","g">>, <<"s","t","a","b","l","e">>,
    <<"v","2","d","i","r">>, <<"v","a","l","i","d">> }

SAFE_REDIRECT_PREFIXES ==
  << <<"/","r","e","l","a","y","/">>, <<"/","f","a","m","i","l","y","/">>,
     <<"/","c","o","n","t","a","c","t","/">>, <<"/","a","s","/">>,
     <<"/","c","o","u","n","t","r","y","/">>,
     <<"/","p","l","a","t","f","o","r","m","/">>, <<"/","f","l","a","g","/">>,
     <<"/","f","i","r","s","t","_","s","e","e","n","/">> >>

\* result type -> URL path segment; <<>> for a type that has none
RESULT_TYPE_PATHS(type) ==
  CASE type = "relay"    -> <<"r","e","l","a","y">>
    [] type = "family"   -> <<"f","a","m","i","l","y">>
    [] type = "contact"  -> <<"c","o","n","t","a","c","t">>
    [] type = "as"       -> <<"a","s">>
    [] type = "country"  -> <<"c","o","u","n","t","r","y">>
    [] type = "platform" -> <<"p","l","a","t","f","o","r","m">>
    [] type = "flag"     -> <<"f","l","a","g">>
    [] OTHER             -> <<>>

(***************************************************************************)
(* JavaScript Map: insertion-ordered sequence of [k, v] entries            *)
(***************************************************************************)
MapHas(m, k) == \E i \in 1..Len(m) : m[i].k = k

\* Map.prototype.get; only used where MapHas holds (undefined otherwise)
MapGet(m, k) == m[CHOOSE i \in 1..Len(m) : m[i].k = k].v

\* Map.prototype.set: an existing key keeps its position and takes the new value
MapSet(m, k, v) ==
  IF MapHas(m, k)
    THEN [i \in 1..Len(m) |-> IF m[i].k = k THEN [k |-> k, v |-> v] ELSE m[i]]
    ELSE Append(m, [k |-> k, v |-> v])

\* raw.<name> || []
Field(doc, name) == IF name \in DOMAIN doc THEN doc[name] ELSE <<>>

(***************************************************************************)
(* buildLookupMaps: one pass per collection.  Each loop of the form        *)
(*   for (i ...) if (has[i]) map.set(keys[i], vals[i])                     *)
(* is given by the Map it leaves: one entry per distinct key, in the order *)
(* of first insertion, holding the value of the last set (or, when the     *)
(* loop guards the set with !map.has(key), of the first).                  *)
(***************************************************************************)
Positions(items) == [i \in 1..Len(items) |-> i]

LoopMap(has, keys, vals, firstWins) ==
  LET live == {i \in 1..Len(keys) : has[i]}
      ins  == SelectSeq(Positions(keys),
                        LAMBDA i : i \in live /\ \A j \in live : j < i => keys[j] # keys[i])
      last(i) == CHOOSE j \in live :
                   keys[j] = keys[i] /\ \A l \in live : l > j => keys[l] # keys[i]
  IN  [p \in 1..Len(ins) |->
         [k |-> keys[ins[p]],
          v |-> vals[IF firstWins THEN ins[p] ELSE last(ins[p])]]]

fpMapOf(relays) ==
  LoopMap([i \in 1..Len(relays) |-> relays[i].f # <<>>],
          [i \in 1..Len(relays) |-> relays[i].f], relays, FALSE)

nickMapOf(relays) ==
  LoopMap([i \in 1..Len(relays) |-> relays[i].n # <<>>],
          [i \in 1..Len(relays) |-> toLowerCase(relays[i].n)], relays, TRUE)

\* the nested loop over relays and their ips: last relay listing an ip wins
ipMapOf(relays) ==
  LET lists(i)  == {j \in 1..Len(relays[i].ip) : TRUE}
      keys      == UNION {{relays[i].ip[j] : j \in lists(i)} : i \in 1..Len(relays)}
      holds(i, k) == \E j \in lists(i) : relays[i].ip[j] = k
      firstI(k) == CHOOSE i \in 1..Len(relays) :
                     holds(i, k) /\ \A l \in 1..(i - 1) : ~holds(l, k)
      firstJ(k) == CHOOSE j \in lists(firstI(k)) :
                     /\ relays[firstI(k)].ip[j] = k
                     /\ \A l \in 1..(j - 1) : relays[firstI(k)].ip[l] # k
      before(a, b) == \/ firstI(a) < firstI(b)
                      \/ firstI(a) = firstI(b) /\ firstJ(a) < firstJ(b)
      lastI(k)  == CHOOSE i \in 1..Len(relays) :
                     holds(i, k) /\ \A l \in (i + 1)..Len(relays) : ~holds(l, k)
  IN  [p \in 1..Cardinality(keys) |->
         LET k == CHOOSE c \in keys : Cardinality({d \in keys : before(d, c)}) = p - 1
         IN  [k |-> k, v |-> relays[lastI(k)]]]

asSetOf(relays, asList) ==
  {toUpperCase(relays[i].as) : i \in {j \in 1..Len(relays) : relays[j].as # <<>>}}
    \cup {toUpperCase(asList[i].num) : i \in {j \in 1..Len(asList) : asList[j].num # <<>>}}

ccSetOf(relays, countries) ==
  {toLowerCase(relays[i].cc) : i \in {j \in 1..Len(relays) : relays[j].cc # <<>>}}
    \cup {toLowerCase(countries[i].code) :
            i \in {j \in 1..Len(countries) : countries[j].code # <<>>}}

ccNameMapOf(countries) ==
  LoopMap([i \in 1..Len(countries) |-> countries[i].name # <<>> /\ countries[i].code # <<>>],
          [i \in 1..Len(countries) |-> toLowerCase(countries[i].name)],
          [i \in 1..Len(countries) |-> toLowerCase(countries[i].code)], FALSE)

contactDomainMapOf(contacts) ==
  LoopMap([i \in 1..Len(contacts) |-> contacts[i].domain # <<>>],
          [i \in 1..Len(contacts) |-> toLowerCase(contacts[i].domain)], contacts, FALSE)

contactHashMapOf(contacts) ==
  LoopMap([i \in 1..Len(contacts) |-> contacts[i].hash # <<>>],
          [i \in 1..Len(contacts) |-> toLowerCase(contacts[i].hash)], contacts, FALSE)

familyIdMapOf(families) ==
  LoopMap([i \in 1..Len(families) |-> families[i].id # <<>>],
          [i \in 1..Len(families) |-> families[i].id], families, FALSE)

familyPrefixMapOf(families) ==
  LoopMap([i \in 1..Len(families) |-> families[i].prefix # <<>>],
          [i \in 1..Len(families) |-> toLowerCase(families[i].prefix)], families, FALSE)

\* JSON null, as a document or as an entry of a collection
JsonNull == [null |-> TRUE]

IsNull(v) == DOMAIN v = {"null"}

\* the builder, were a collection read without the || [] default
buildThrows_missingCollection(doc) ==
  \/ IsNull(doc)
  \/ \E name \in {"relays", "autonomous_systems", "countries", "contacts", "families"} :
       \/ name \notin DOMAIN doc
       \/ \E i \in 1..Len(Field(doc, name)) : IsNull(Field(doc, name)[i])

\* raw.relays, r.f, a.num, c.code, c.domain, f.id read on null: a TypeError
buildThrows(doc) ==
  \/ IsNull(doc)
  \/ \E name \in {"relays", "autonomous_systems", "countries", "contacts", "families"} :
       \E i \in 1..Len(Field(doc, name)) : IsNull(Field(doc, name)[i])

buildLookupMaps(doc) ==
  LET relays    == Field(doc, "relays")
      asList    == Field(doc, "autonomous_systems")
      countries == Field(doc, "countries")
      contacts  == Field(doc, "contacts")
      families  == Field(doc, "families")
  IN  [ relays           |-> relays,
        fpMap            |-> fpMapOf(relays),
        nickMap          |-> nickMapOf(relays),
        ipMap            |-> ipMapOf(relays),
        asSet            |-> asSetOf(relays, asList),
        ccSet            |-> ccSetOf(relays, countries),
        ccNameMap        |-> ccNameMapOf(countries),
        contactDomainMap |-> contactDomainMapOf(contacts),
        contactHashMap   |-> contactHashMapOf(contacts),
        familyIdMap      |-> familyIdMapOf(families),
        familyPrefixMap  |-> familyPrefixMapOf(families) ]

(***************************************************************************)
(* Search results                                                          *)
(***************************************************************************)
NoHint == [tpl |-> "", count |-> <<>>, q |-> <<>>]

Single(type, id) == [type |-> type, id |-> id, matches |-> <<>>, hint |-> NoHint]

Multiple(matches, hint) ==
  [type |-> "multiple", id |-> <<>>, matches |-> matches, hint |-> hint]

NotFound == [type |-> "not_found", id |-> <<>>, matches |-> <<>>, hint |-> NoHint]

relayResult(r) == [t |-> "relay", f |-> r.f, n |-> r.n, cc |-> r.cc]

mapRelayResult(rs) == [i \in 1..Len(rs) |-> relayResult(rs[i])]

(***************************************************************************)
(* search: stages in the order of the code                                 *)
(***************************************************************************)
\* 1. Full fingerprint: fpMap, then familyIdMap, else not_found
fullFingerprint(q, idx) ==
  LET qUp == toUpperCase(q)
  IN  IF MapHas(idx.fpMap, qUp) THEN Single("relay", MapGet(idx.fpMap, qUp).f)
      ELSE IF MapHas(idx.familyIdMap, qUp)
        THEN Single("family", MapGet(idx.familyIdMap, qUp).id)
      ELSE NotFound

\* 2. the scan of the fpMap entries, left as soon as MAX_RESULTS is exceeded:
\*    the first MAX_RESULTS + 1 relays, in Map order, whose key starts with qUp
fpScan(fpMap, qUp) ==
  LET hits == SelectSeq(Positions(fpMap), LAMBDA i : startsWith(fpMap[i].k, qUp))
      kept == slice(hits, MAX_RESULTS + 1)
  IN  [p \in 1..Len(kept) |-> fpMap[kept[p]].v]

\* the scan, were the query compared without being uppercased
partialFingerprint_noUpper(q, idx) == fpScan(idx.fpMap, q)

partialFingerprint(q, idx) == fpScan(idx.fpMap, toUpperCase(q))

\* 12. the combined prefix / contains pass over idx.relays.  The loop is left
\*     at the relay that makes prefixMatches exceed MAX_RESULTS; up to there a
\*     relay without prefix match is pushed to containsMatches while that list
\*     has at most 2 * MAX_RESULTS entries.
\* the pass, were it not left when prefixMatches exceeds MAX_RESULTS
nickScan_wholeIndex(relays, qLow) ==
  LET named(i)  == relays[i].n # <<>>
      isPre(i)  == named(i) /\ startsWith(toLowerCase(relays[i].n), qLow)
      pAll      == SelectSeq(Positions(relays), isPre)
      isCon(i)  == /\ named(i) /\ ~isPre(i)
                   /\ includes(toLowerCase(relays[i].n), qLow)
      cAll      == SelectSeq(Positions(relays), isCon)
      cKept     == slice(cAll, 2 * MAX_RESULTS + 1)
  IN  [p |-> [j \in 1..Len(pAll) |-> relays[pAll[j]]],
       c |-> [j \in 1..Len(cKept) |-> relays[cKept[j]]]]

nickScan(relays, qLow) ==
  LET named(i)  == relays[i].n # <<>>
      isPre(i)  == named(i) /\ startsWith(toLowerCase(relays[i].n), qLow)
      pAll      == SelectSeq(Positions(relays), isPre)
      stopAt    == IF Len(pAll) > MAX_RESULTS THEN pAll[MAX_RESULTS + 1] ELSE Len(relays)
      isCon(i)  == /\ i <= stopAt /\ named(i) /\ ~isPre(i)
                   /\ includes(toLowerCase(relays[i].n), qLow)
      cAll      == SelectSeq(Positions(relays), isCon)
      pKept     == slice(pAll, MAX_RESULTS + 1)
      cKept     == slice(cAll, 2 * MAX_RESULTS + 1)
  IN  [p |-> [j \in 1..Len(pKept) |-> relays[pKept[j]]],
       c |-> [j \in 1..Len(cKept) |-> relays[cKept[j]]]]

\* the scan, were the hint to state the number of relays listed
nicknameScan_shownCount(q, idx) ==
  LET qLow == toLowerCase(q)
      acc  == nickScan(idx.relays, qLow)
      prefixMatches   == acc.p
      containsMatches == acc.c
      \* the famId / sameFam loop: every match carries the first match's family
      sameFam == \A i \in 1..Len(prefixMatches) :
                    /\ prefixMatches[i].fam # <<>>
                    /\ prefixMatches[i].fam = prefixMatches[1].fam
  IN  IF Len(prefixMatches) = 1 THEN Single("relay", prefixMatches[1].f)
      ELSE IF Len(prefixMatches) > 1
        THEN IF sameFam THEN Single("family", prefixMatches[1].fam)
             ELSE Multiple(mapRelayResult(slice(prefixMatches, MAX_RESULTS)),
                           [tpl |-> "Multiple relays match \"{q}\"",
                            count |-> <<>>, q |-> q])
      ELSE IF Len(containsMatches) = 1 THEN Single("relay", containsMatches[1].f)
      ELSE IF Len(containsMatches) > 1 /\ Len(containsMatches) <= MAX_RESULTS * 2
        THEN Multiple(mapRelayResult(slice(containsMatches, MAX_RESULTS)),
                      [tpl |-> "Found {count} relays containing \"{q}\"",
                       count |-> numToString(Len(slice(containsMatches, MAX_RESULTS))),
                       q |-> q])
      ELSE NotFound

nicknameScan(q, idx) ==
  LET qLow == toLowerCase(q)
      acc  == nickScan(idx.relays, qLow)
      prefixMatches   == acc.p
      containsMatches == acc.c
      \* the famId / sameFam loop: every match carries the first match's family
      sameFam == \A i \in 1..Len(prefixMatches) :
                    /\ prefixMatches[i].fam # <<>>
                    /\ prefixMatches[i].fam = prefixMatches[1].fam
  IN  IF Len(prefixMatches) = 1 THEN Single("relay", prefixMatches[1].f)
      ELSE IF Len(prefixMatches) > 1
        THEN IF sameFam THEN Single("family", prefixMatches[1].fam)
             ELSE Multiple(mapRelayResult(slice(prefixMatches, MAX_RESULTS)),
                           [tpl |-> "Multiple relays match \"{q}\"",
                            count |-> <<>>, q |-> q])
      ELSE IF Len(containsMatches) = 1 THEN Single("relay", containsMatches[1].f)
      ELSE IF Len(containsMatches) > 1 /\ Len(containsMatches) <= MAX_RESULTS * 2
        THEN Multiple(mapRelayResult(slice(containsMatches, MAX_RESULTS)),
                      [tpl |-> "Found {count} relays containing \"{q}\"",
                       count |-> numToString(Len(containsMatches)), q |-> q])
      ELSE NotFound

\* stages 3. to 12., were the exact nickname looked up before the country code
searchFromAS_nickFirst(q, idx) ==
  LET qLow    == toLowerCase(q)
      asMatch == RE_AS_NUMBER(q)
      asNum   == <<"A","S">> \o asMatch[1]
  IN  IF asMatch # <<>> /\ asNum \in idx.asSet THEN Single("as", asNum)
      ELSE IF MapHas(idx.nickMap, qLow) THEN Single("relay", MapGet(idx.nickMap, qLow).f)
      ELSE IF RE_COUNTRY_CODE(q) /\ qLow \in idx.ccSet THEN Single("country", qLow)
      ELSE IF MapHas(idx.ccNameMap, qLow)
        THEN Single("country", MapGet(idx.ccNameMap, qLow))
      ELSE IF qLow \in KNOWN_PLATFORMS THEN Single("platform", qLow)
      ELSE IF qLow \in KNOWN_FLAGS THEN Single("flag", qLow)
      ELSE IF MapHas(idx.contactDomainMap, qLow)
        THEN Single("contact", MapGet(idx.contactDomainMap, qLow).hash)
      ELSE IF MapHas(idx.contactHashMap, qLow)
        THEN Single("contact", MapGet(idx.contactHashMap, qLow).hash)
      ELSE IF /\ RE_IPV4(q) \/ (includes(q, <<":">>) /\ RE_IPV6_CHARS(q))
              /\ MapHas(idx.ipMap, q)
        THEN Single("relay", MapGet(idx.ipMap, q).f)
      ELSE IF MapHas(idx.nickMap, qLow) THEN Single("relay", MapGet(idx.nickMap, qLow).f)
      ELSE IF MapHas(idx.familyPrefixMap, qLow)
        THEN Single("family", MapGet(idx.familyPrefixMap, qLow).id)
      ELSE nicknameScan(q, idx)

\* stages 3. to 12., were a domain match to carry the domain as its id
searchFromAS_domainId(q, idx) ==
  LET qLow    == toLowerCase(q)
      asMatch == RE_AS_NUMBER(q)
      asNum   == <<"A","S">> \o asMatch[1]
  IN  IF asMatch # <<>> /\ asNum \in idx.asSet THEN Single("as", asNum)
      ELSE IF RE_COUNTRY_CODE(q) /\ qLow \in idx.ccSet THEN Single("country", qLow)
      ELSE IF MapHas(idx.ccNameMap, qLow)
        THEN Single("country", MapGet(idx.ccNameMap, qLow))
      ELSE IF qLow \in KNOWN_PLATFORMS THEN Single("platform", qLow)
      ELSE IF qLow \in KNOWN_FLAGS THEN Single("flag", qLow)
      ELSE IF MapHas(idx.contactDomainMap, qLow)
        THEN Single("contact", MapGet(idx.contactDomainMap, qLow).domain)
      ELSE IF MapHas(idx.contactHashMap, qLow)
        THEN Single("contact", MapGet(idx.contactHashMap, qLow).hash)
      ELSE IF /\ RE_IPV4(q) \/ (includes(q, <<":">>) /\ RE_IPV6_CHARS(q))
              /\ MapHas(idx.ipMap, q)
        THEN Single("relay", MapGet(idx.ipMap, q).f)
      ELSE IF MapHas(idx.nickMap, qLow) THEN Single("relay", MapGet(idx.nickMap, qLow).f)
      ELSE IF MapHas(idx.familyPrefixMap, qLow)
        THEN Single("family", MapGet(idx.familyPrefixMap, qLow).id)
      ELSE nicknameScan(q, idx)

\* 3. to 12.: everything after the fingerprint stages
searchFromAS(q, idx) ==
  LET qLow    == toLowerCase(q)
      asMatch == RE_AS_NUMBER(q)
      asNum   == <<"A","S">> \o asMatch[1]
  IN  IF asMatch # <<>> /\ asNum \in idx.asSet THEN Single("as", asNum)
      ELSE IF RE_COUNTRY_CODE(q) /\ qLow \in idx.ccSet THEN Single("country", qLow)
      ELSE IF MapHas(idx.ccNameMap, qLow)
        THEN Single("country", MapGet(idx.ccNameMap, qLow))
      ELSE IF qLow \in KNOWN_PLATFORMS THEN Single("platform", qLow)
      ELSE IF qLow \in KNOWN_FLAGS THEN Single("flag", qLow)
      ELSE IF MapHas(idx.contactDomainMap, qLow)
        THEN Single("contact", MapGet(idx.contactDomainMap, qLow).hash)
      ELSE IF MapHas(idx.contactHashMap, qLow)
        THEN Single("contact", MapGet(idx.contactHashMap, qLow).hash)
      ELSE IF /\ RE_IPV4(q) \/ (includes(q, <<":">>) /\ RE_IPV6_CHARS(q))
              /\ MapHas(idx.ipMap, q)
        THEN Single("relay", MapGet(idx.ipMap, q).f)
      ELSE IF MapHas(idx.nickMap, qLow) THEN Single("relay", MapGet(idx.nickMap, qLow).f)
      ELSE IF MapHas(idx.familyPrefixMap, qLow)
        THEN Single("family", MapGet(idx.familyPrefixMap, qLow).id)
      ELSE nicknameScan(q, idx)

\* search, were an unknown full fingerprint to fall through to the later stages
search_fallThrough(q, idx) ==
  IF RE_FULL_FINGERPRINT(q) /\ fullFingerprint(q, idx) # NotFound
    THEN fullFingerprint(q, idx)
  ELSE LET matches == IF RE_PARTIAL_FINGERPRINT(q) THEN partialFingerprint(q, idx)
                      ELSE <<>>
       IN  IF Len(matches) = 1 THEN Single("relay", matches[1].f)
           ELSE IF Len(matches) > 1
             THEN Multiple(mapRelayResult(slice(matches, MAX_RESULTS)),
                           [tpl |-> "Multiple relays match this fingerprint prefix",
                            count |-> <<>>, q |-> <<>>])
           ELSE searchFromAS(q, idx)

search(q, idx) ==
  IF RE_FULL_FINGERPRINT(q) THEN fullFingerprint(q, idx)
  ELSE LET matches == IF RE_PARTIAL_FINGERPRINT(q) THEN partialFingerprint(q, idx)
                      ELSE <<>>
       IN  IF Len(matches) = 1 THEN Single("relay", matches[1].f)
           ELSE IF Len(matches) > 1
             THEN Multiple(mapRelayResult(slice(matches, MAX_RESULTS)),
                           [tpl |-> "Multiple relays match this fingerprint prefix",
                            count |-> <<>>, q |-> <<>>])
           ELSE searchFromAS(q, idx)

(***************************************************************************)
(* Validation and responses                                                *)
(***************************************************************************)
\* validateQuery, were the characters tested before the length
validateQuery_charsFirst(rawq) ==
  LET q == trim(rawq)
  IN  IF rawq = <<>> THEN [ok |-> FALSE, q |-> <<>>, err |-> "empty"]
      ELSE IF q = <<>> THEN [ok |-> FALSE, q |-> <<>>, err |-> "empty"]
      ELSE IF ~RE_ALLOWED_CHARS(q)
        THEN [ok |-> FALSE, q |-> <<>>, err |-> "Query contains invalid characters"]
      ELSE IF Len(q) > MAX_QUERY_LENGTH
        THEN [ok |-> FALSE, q |-> <<>>, err |-> "Query too long"]
      ELSE [ok |-> TRUE, q |-> q, err |-> ""]

validateQuery(rawq) ==
  LET q == trim(rawq)
  IN  IF rawq = <<>> THEN [ok |-> FALSE, q |-> <<>>, err |-> "empty"]
      ELSE IF q = <<>> THEN [ok |-> FALSE, q |-> <<>>, err |-> "empty"]
      ELSE IF Len(q) > MAX_QUERY_LENGTH
        THEN [ok |-> FALSE, q |-> <<>>, err |-> "Query too long"]
      ELSE IF ~RE_ALLOWED_CHARS(q)
        THEN [ok |-> FALSE, q |-> <<>>, err |-> "Query contains invalid characters"]
      ELSE [ok |-> TRUE, q |-> q, err |-> ""]

\* the check, were only the length tested
isSafePath_lengthOnly(s) == s # <<>> /\ Len(s) <= 100

isSafePath(s) == s # <<>> /\ Len(s) <= 100 /\ RE_SAFE_PATH(s)

Resp(status, location, matches, hint) ==
  [status |-> status, location |-> location, matches |-> matches, hint |-> hint]

safeRedirect(path) ==
  LET ok == \E i \in 1..Len(SAFE_REDIRECT_PREFIXES) :
              startsWith(path, SAFE_REDIRECT_PREFIXES[i])
  IN  IF ~ok \/ includes(path, <<":","/","/">>) \/ startsWith(path, <<"/","/">>)
        THEN Resp(400, <<>>, <<>>, NoHint)
        ELSE Resp(302, path, <<>>, NoHint)

handleError == Resp(503, <<>>, <<>>, NoHint)

renderDisambiguation(matches, hint) == Resp(200, <<>>, matches, hint)

renderNotFound == Resp(404, <<>>, <<>>, NoHint)

renderInvalid == Resp(400, <<>>, <<>>, NoHint)

\* the same, were the id not checked before the redirect is built
respond_noIdCheck(res) ==
  LET pathType == RESULT_TYPE_PATHS(res.type)
  IN  IF pathType # <<>> /\ res.id # <<>>
        THEN safeRedirect(<<"/">> \o pathType \o <<"/">> \o res.id \o <<"/">>)
      ELSE IF res.type = "multiple" THEN renderDisambiguation(res.matches, res.hint)
      ELSE renderNotFound

\* the part of onRequestGet that turns a search result into a response
respond(res) ==
  LET pathType == RESULT_TYPE_PATHS(res.type)
  IN  IF pathType # <<>> /\ res.id # <<>>
        THEN IF ~isSafePath(res.id) THEN handleError
             ELSE safeRedirect(<<"/">> \o pathType \o <<"/">> \o res.id \o <<"/">>)
      ELSE IF res.type = "multiple" THEN renderDisambiguation(res.matches, res.hint)
      ELSE renderNotFound

(***************************************************************************)
(* Bounds and the indexes, queries and storage states that are explored    *)
(***************************************************************************)
MaxPick == 2

MaxBulk == 42

MaxTicks == 1

Relay(f, n, as, cc, ip, fam) ==
  [f |-> f, n |-> n, as |-> as, cc |-> cc, ip |-> ip, fam |-> fam]

FP_A == <<"1","2","3","4","5","6">> \o Rep("A", 34)

FP_B == <<"1","2","3","4","5","6">> \o Rep("B", 34)

FP_C == Rep("C", 40)

FP_D == Rep("D", 40)

FP_E == Rep("E", 40)

FP_F == Rep("F", 40)

FP_G == <<"A","B","C","D","E","F">> \o Rep("0", 34)

StrFam1 == <<"f","a","m","1">>

StrFam2 == <<"f","a","m","2">>

StrIp1 == <<"1","0",".","0",".","0",".","1">>

StrIp6 == <<":",":","1">>

RelayA == Relay(FP_A, <<"r","e","l","a","y","X">>, <<"A","S","1","2","3","4","5","6">>, <<"d","e">>, <<StrIp1>>, StrFam1)

RelayB == Relay(FP_B, <<"R","e","l","a","y","X">>, <<"a","s","2","4","9","4","0">>, <<"U","S">>, <<StrIp1, StrIp6>>, StrFam1)

RelayC == Relay(FP_C, Rep("e", 40), <<>>, <<>>, <<>>, <<>>)

RelayD == Relay(FP_D, <<"d","e">>, <<>>, <<>>, <<>>, StrFam2)

RelayL == Relay(Rep("9", 40), <<"l","i","n","u","x">>, <<"A","S","1","2","3","4","5","6">>, <<>>, <<>>, <<>>)

RelayU == Relay(<<"a",":","/","/","b">>, <<"a","b","c","d","e","f">>, <<>>, <<>>, <<>>, <<"/","/","x">>)

RelayG == Relay(FP_G, <<"r","e","l","a","y","7">>, <<>>, <<>>, <<>>, StrFam2)

RelayPool == <<RelayA, RelayB, RelayC, RelayD, RelayL, RelayU, RelayG>>

Reverse(s) == [i \in 1..Len(s) |-> s[Len(s) + 1 - i]]

\* the relays of the pool at the positions S, in pool order
Pick(S) ==
  LET pos == SelectSeq([i \in 1..Len(RelayPool) |-> i], LAMBDA i : i \in S)
  IN  [j \in 1..Len(pos) |-> RelayPool[pos[j]]]

RelayLists ==
  LET picks == {S \in SUBSET (1..Len(RelayPool)) : Cardinality(S) <= MaxPick}
  IN  {Pick(S) : S \in picks} \cup {Reverse(Pick(S)) : S \in picks}

AsList == << [num |-> <<"A","S","2","4","9","4","0">>], [num |-> <<"a","s","7">>] >>

Countries ==
  << [code |-> <<"G","B">>, name |-> <<"U","n","i","t","e","d"," ","K","i","n","g","d","o","m">>],
     [code |-> <<"d","e">>, name |-> <<"G","e","r","m","a","n","y">>] >>

Contacts ==
  << [domain |-> <<"A",".","i","o">>, hash |-> <<"h","1">>],
     [domain |-> <<"b",".","i","o">>, hash |-> <<"h",":","/","/","2">>],
     [domain |-> <<"c",".","i","o">>, hash |-> <<>>] >>

Families ==
  << [id |-> FP_F, prefix |-> <<"R","e","l">>],
     [id |-> <<"/","/","e","v","i","l">>, prefix |-> <<"e","v","i","l">>] >>

\* an index document with every collection, and one with the relays only
FullDoc(relays) ==
  [relays |-> relays, autonomous_systems |-> AsList, countries |-> Countries,
   contacts |-> Contacts, families |-> Families]

BareDoc(relays) == [relays |-> relays]

SmallDocs == {FullDoc(rs) : rs \in RelayLists} \cup {BareDoc(rs) : rs \in RelayLists}

\* k relays named xrel00, xrel01, ... with fingerprints DDDDDD00.., DDDDDD01..
TwoDigits(i) == <<DigitOf(i \div 10), DigitOf(i % 10)>>

BulkRelay(i) ==
  Relay(Rep("D", 6) \o TwoDigits(i) \o Rep("0", 32),
        <<"x","r","e","l">> \o TwoDigits(i), <<>>, <<>>, <<>>, <<>>)

BulkSizes ==
  {2, MAX_RESULTS, MAX_RESULTS + 1, 2 * MAX_RESULTS, 2 * MAX_RESULTS + 1, MaxBulk}

BulkDocs == {BareDoc([i \in 1..k |-> BulkRelay(i)]) : k \in BulkSizes}

Queries ==
  { toLowerCase(FP_A), FP_B, FP_E, Rep("e", 40), toLowerCase(FP_F),
    <<"1","2","3","4","5","6">>, <<"A","S","1","2","3","4","5","6">>, <<"a","s","1","2","3","4","5","6">>, <<"2","4","9","4","0">>, <<"A","S","2","4","9","4","0">>, <<"a","s","2","4","9","4","0">>, <<"7">>, <<"A","s","7">>,
    <<"d","e">>, <<"D","E">>, <<"u","k">>, <<"g","b">>, <<"u","n","i","t","e","d"," ","k","i","n","g","d","o","m">>, <<"U","n","i","t","e","d"," ","K","i","n","g","d","o","m">>, <<"G","e","r","m","a","n","y">>,
    <<"l","i","n","u","x">>, <<"E","x","i","t">>, <<"a",".","i","o">>, <<"A",".","I","O">>, <<"h","1">>, <<"b",".","i","o">>, <<"c",".","i","o">>, <<"1","0",".","0",".","0",".","1">>, <<":",":","1">>,
    <<"r","e","l","a","y","x">>, <<"r","e","l">>, <<"r","e","l","a","y">>, <<"e","l","a","y">>, <<"a","b","c","d","e","f">>, <<"c","c","c","c","c","c">>, <<"e","v","i","l">>, <<"z","z","z">>,
    <<>>, <<" "," ">>, <<" ","d","e"," ">>, <<"a","/","b">> }

BulkQueries == { <<"r","e","l">>, <<"x","r","e","l">>, <<"d","d","d","d","d","d">>, <<"d","d","d","d","d","d","0","7">>, <<"x","r","e","l","0","7">> }

\* the generated operator page of a domain, per storage backend
STORAGE_ORDER == <<"r2", "do", "failover">>

PageAio == <<"a",".","i","o","/","i","n","d","e","x",".","h","t","m","l">>

Backend(status, paths) == [status |-> status, paths |-> paths]

StorageEmpty ==
  [b \in {"r2", "do", "failover"} |-> Backend("up", {})]

Storages ==
  { StorageEmpty,
    [StorageEmpty EXCEPT !["r2"] = Backend("up", {PageAio})],
    [StorageEmpty EXCEPT !["r2"] = Backend("down", {}),
                         !["do"] = Backend("up", {PageAio})],
    [b \in {"r2", "do", "failover"} |-> Backend("unconfigured", {})] }

ContactQueries == { <<"a",".","i","o">>, <<"h","1">>, <<"b",".","i","o">> }

\* raw q parameters around the limits of validateQuery
ValidationQueries ==
  { Rep("a", MAX_QUERY_LENGTH), Rep("a", MAX_QUERY_LENGTH + 1),
    Rep("/", MAX_QUERY_LENGTH + 1),
    <<" ">> \o Rep("a", MAX_QUERY_LENGTH) \o <<"\t">>,
    <<" ">> \o Rep("a", MAX_QUERY_LENGTH - 1) \o <<"/", " ">>,
    <<"a","@","b",":","c","-","d","_","e",".","f">>, <<" ","R","e","l","a","y"," ","X"," ">>, <<"\t", "\n">>, <<"r","<","b",">">>, <<"d", "\t", "e">> }

\* index documents the builder fails on
BrokenDocs == { JsonNull, [relays |-> <<RelayA, JsonNull>>], [families |-> <<JsonNull>>] }

BrokenQueries == { <<"d","e">>, <<"r","e","l","a","y","x">>, <<"a","/","b">> }

\* index documents without relays: with no collection at all, with families only
SparseDocs == { [generated |-> <<"2","0","2","6">>], [families |-> Families] }

SparseQueries == { toLowerCase(FP_F), <<"r","e","l">>, <<"d","e">>, <<"e","v","i","l">> }

\* k relays named yrel01, yrel02, ... of the family fam1, followed by one
\* more relay of that name prefix whose family is odd
FamRelay(i, fam) ==
  Relay(Rep("E", 6) \o TwoDigits(i) \o Rep("0", 32),
        <<"y","r","e","l">> \o TwoDigits(i), <<>>, <<>>, <<>>, fam)

FamilySizes == {1, 2, MAX_RESULTS - 1, MAX_RESULTS, MAX_RESULTS + 1}

FamilyDocs ==
  {BareDoc([i \in 1..(k + 1) |-> FamRelay(i, IF i <= k THEN StrFam1 ELSE odd)]) :
     k \in FamilySizes, odd \in {StrFam1, StrFam2, <<>>}}

FamilyQueries == { <<"y","r","e","l">>, <<"Y","R","E","L","0">>, <<"r","e","l">> }

\* a relay whose fingerprint is written in lower case in the index document
RelayLc == Relay(Rep("b", 40), <<"l","c">>, <<>>, <<>>, <<>>, <<>>)

CaseDocs == { BareDoc(<<RelayLc>>), BareDoc(<<RelayA, RelayLc>>) }

CaseQueries == { Rep("b", 40), Rep("B", 40), toLowerCase(FP_A) }

\* queries of the requests that follow the first
FollowUps == { <<>>, <<"a","/","b">>, <<"d","e">>, <<"r","e","l","a","y","x">> }

Scenarios ==
  {[doc |-> d, q |-> q, st |-> StorageEmpty] : d \in SmallDocs, q \in Queries}
    \cup {[doc |-> d, q |-> q, st |-> StorageEmpty] : d \in BulkDocs, q \in BulkQueries}
    \cup {[doc |-> FullDoc(<<>>), q |-> q, st |-> st] : q \in ContactQueries, st \in Storages}
    \cup {[doc |-> FullDoc(<<RelayA>>), q |-> q, st |-> StorageEmpty] : q \in ValidationQueries}
    \cup {[doc |-> d, q |-> q, st |-> StorageEmpty] : d \in BrokenDocs, q \in BrokenQueries}
    \cup {[doc |-> d, q |-> q, st |-> StorageEmpty] : d \in SparseDocs, q \in SparseQueries}
    \cup {[doc |-> d, q |-> q, st |-> StorageEmpty] : d \in FamilyDocs, q \in FamilyQueries}
    \cup {[doc |-> d, q |-> q, st |-> StorageEmpty] : d \in CaseDocs, q \in CaseQueries}

(***************************************************************************)
(* State machine: one request in flight against the origin's index         *)
(***************************************************************************)
NoResponse == Resp(0, <<>>, <<>>, NoHint)

NoResult == [type |-> "none", id |-> <<>>, matches |-> <<>>, hint |-> NoHint]

IndexUrl == "/search-index.json"

FetchOutcomes == {"ok", "http_error", "parse_error"}

\* bound: the loadIndex calls that may overlap
MaxCalls == 2

CallIds == 1..MaxCalls

\* a call of loadIndex: where it stands, the Date.now() it read, the response
\* of its fetch, the document of that response and the structure it returned
IdleCall == [pc |-> "idle", now |-> 0, res |-> "", doc |-> <<>>, idx |-> <<>>, fetched |-> FALSE]

LoadIdle == calls = [c \in CallIds |-> IdleCall] /\ finished = <<>>

NoContentResponse ==
  [status |-> 0, servedFrom |-> "", cacheStatus |-> "", path |-> <<>>, error |-> ""]

NoBody == [json |-> FALSE, purge_all |-> FALSE, urls |-> <<>>]

Http(method, qs, secret, body) ==
  [method |-> method, search |-> qs, secret |-> secret, body |-> body]

ContentIdle ==
  /\ env = [STORAGE_ORDER |-> <<>>, FAILOVER_ENABLED |-> FALSE, PURGE_SECRET |-> <<>>]
  /\ edgeCache = {}
  /\ contentRequest = <<>>
  /\ contentHttp = Http("GET", <<>>, <<>>, NoBody)
  /\ contentResponse = NoContentResponse
  /\ consulted = <<>>

\* days are numbered from 1; 0 stands for no date: no script running, no
\* marker file
MarkerFiles == {"local", "remote"}

NoCall == [fn |-> "", marker |-> "", force |-> "", daily |-> "", day |-> 0, today |-> 0,
           before |-> 0, ran |-> FALSE]

BackupIdle ==
  /\ day = 1
  /\ TODAY = 0
  /\ markers = [m \in MarkerFiles |-> 0]
  /\ syncLog = <<>>
  /\ lastCall = NoCall

Locations == {"local", "r2"}

\* a run of the update script: where it stands, the count it read at its
\* start, the configuration it sourced, the background prune and uploads,
\* UPLOAD_SUCCESS, whether purge_cdn was called and the exit status (-1
\* while it runs)
NoRun ==
  [pc |-> "idle", failures |-> 0, R2_ENABLED |-> FALSE, DO_ENABLED |-> FALSE,
   PURGE_SECRET |-> FALSE, prune |-> "none", r2 |-> "off", do |-> "off",
   UPLOAD_SUCCESS |-> FALSE, purged |-> FALSE, exit |-> -1]

UpdateIdle ==
  /\ failuresFile = 0
  /\ run = NoRun
  /\ runLog = <<>>

\* a run of the prune script: where it stands, whether LOCAL_BACKUP_DIR is
\* a directory, the backups there were at its start, local_count and
\* r2_count, the listing each deletion started from, the R2 backups still to
\* purge and those whose purge failed
NoPrune ==
  [pc |-> "idle", dir |-> FALSE, start |-> [l \in Locations |-> {}],
   count |-> [l \in Locations |-> 0], listed |-> [l \in Locations |-> {}],
   r2_to_delete |-> <<>>, kept |-> {}]

PruneIdle ==
  /\ backups = [l \in Locations |-> {}]
  /\ prune = NoPrune

Init ==
  \E sc \in Scenarios :
    /\ raw = sc.doc
    /\ storage = sc.st
    /\ request = sc.q
    /\ cachedIndex = <<>>
    /\ cacheExpiry = 0
    /\ now = 1
    /\ result = NoResult
    /\ response = NoResponse
    /\ fetchLog = <<>>
    /\ LoadIdle
    /\ ContentIdle
    /\ BackupIdle
  /\ UpdateIdle
  /\ PruneIdle

\* the cache test, were a structure still served at its expiry time
cacheFresh_atExpiry(t) == cachedIndex # <<>> /\ t <= cacheExpiry

\* if (cachedIndex && now < cacheExpiry), for the time t the caller read
cacheFresh(t) == cachedIndex # <<>> /\ t < cacheExpiry

\* loadIndex, were the expired structure returned when the reload fails
loadIndex_serveStale(outcome) ==
  LET built == <<buildLookupMaps(raw)>>
  IN  IF cacheFresh(now)
        THEN [threw |-> FALSE, idx |-> cachedIndex, cachedIndex |-> cachedIndex,
              cacheExpiry |-> cacheExpiry, fetched |-> FALSE]
      ELSE IF outcome # "ok" \/ buildThrows(raw)
        THEN [threw |-> cachedIndex = <<>>, idx |-> cachedIndex, cachedIndex |-> cachedIndex,
              cacheExpiry |-> cacheExpiry, fetched |-> TRUE]
      ELSE [threw |-> FALSE, idx |-> built, cachedIndex |-> built,
            cacheExpiry |-> now + INDEX_CACHE_TTL_MS, fetched |-> TRUE]

\* loadIndex run to its end without another request in between: whether it
\* threw, the structure it returned, the cache it leaves and whether it
\* fetched; outcome is what the index fetch yields
loadIndex(outcome) ==
  LET built == <<buildLookupMaps(raw)>>
  IN  IF cacheFresh(now)
        THEN [threw |-> FALSE, idx |-> cachedIndex, cachedIndex |-> cachedIndex,
              cacheExpiry |-> cacheExpiry, fetched |-> FALSE]
      ELSE IF outcome # "ok" \/ buildThrows(raw)
        THEN [threw |-> TRUE, idx |-> <<>>, cachedIndex |-> cachedIndex,
              cacheExpiry |-> cacheExpiry, fetched |-> TRUE]
      ELSE [threw |-> FALSE, idx |-> built, cachedIndex |-> built,
            cacheExpiry |-> now + INDEX_CACHE_TTL_MS, fetched |-> TRUE]

\* onRequestGet, were the index loaded before the query is validated
OnRequestGet_loadFirst(outcome) ==
  /\ response = NoResponse
  /\ LET v == validateQuery(request)
         l == loadIndex(outcome)
     IN  /\ cachedIndex' = l.cachedIndex
         /\ cacheExpiry' = l.cacheExpiry
         /\ fetchLog' = IF l.fetched THEN Append(fetchLog, IndexUrl) ELSE fetchLog
         /\ IF ~v.ok
              THEN /\ response' = IF v.err = "empty" THEN Resp(302, <<"/">>, <<>>, NoHint)
                                   ELSE renderInvalid
                   /\ UNCHANGED result
              ELSE /\ result' = IF l.threw THEN NoResult ELSE search(v.q, l.idx[1])
                   /\ response' = IF l.threw THEN handleError ELSE respond(result')
  /\ UNCHANGED <<raw, storage, request, now, loadVars, contentVars, backupVars, updateVars, pruneVars>>

\* onRequestGet for one request, run to its response
OnRequestGet(outcome) ==
  /\ response = NoResponse
  /\ LET v == validateQuery(request)
         l == loadIndex(outcome)
     IN  IF ~v.ok
           THEN /\ response' = IF v.err = "empty" THEN Resp(302, <<"/">>, <<>>, NoHint)
                                ELSE renderInvalid
                /\ UNCHANGED <<result, cachedIndex, cacheExpiry, fetchLog>>
           ELSE /\ cachedIndex' = l.cachedIndex
                /\ cacheExpiry' = l.cacheExpiry
                /\ fetchLog' = IF l.fetched THEN Append(fetchLog, IndexUrl) ELSE fetchLog
                /\ result' = IF l.threw THEN NoResult ELSE search(v.q, l.idx[1])
                /\ response' = IF l.threw THEN handleError ELSE respond(result')
  /\ UNCHANGED <<raw, storage, request, now, loadVars, contentVars, backupVars, updateVars, pruneVars>>

\* the next request arrives: the same query again, or one of FollowUps
NewRequest ==
  /\ response # NoResponse
  /\ response' = NoResponse
  /\ result' = NoResult
  /\ fetchLog' = <<>>
  /\ request' \in {request} \cup FollowUps
  /\ UNCHANGED <<raw, storage, cachedIndex, cacheExpiry, now, loadVars, contentVars, backupVars, updateVars, pruneVars>>

\* Date.now() advances by a cache lifetime
Tick ==
  /\ now < MaxTicks * INDEX_CACHE_TTL_MS
  /\ now' = now + INDEX_CACHE_TTL_MS
  /\ UNCHANGED <<raw, storage, request, cachedIndex, cacheExpiry, result, response, fetchLog,
               loadVars, contentVars, backupVars, updateVars, pruneVars>>

Handle == \E outcome \in FetchOutcomes : OnRequestGet(outcome)

Next == Handle \/ NewRequest \/ Tick

Spec == Init /\ [][Next]_vars

(***************************************************************************)
(* loadIndex under overlapping requests.  A call is suspended at           *)
(* await fetch(...) and at await res.json(); what lies between two awaits  *)
(* runs without interruption.                                              *)
(***************************************************************************)
\* the index documents the origin serves over time
LoadDocs == { FullDoc(<<RelayA>>), BareDoc(<<RelayB>>), [relays |-> <<JsonNull>>] }

InitLoad ==
  /\ raw \in LoadDocs
  /\ storage = StorageEmpty
  /\ request = <<>>
  /\ cachedIndex = <<>>
  /\ cacheExpiry = 0
  /\ now = 1
  /\ result = NoResult
  /\ response = NoResponse
  /\ fetchLog = <<>>
  /\ LoadIdle
  /\ ContentIdle
  /\ BackupIdle
  /\ UpdateIdle
  /\ PruneIdle

\* loadIndex up to its first await: the cached structure, or the fetch issued
LoadIndexBegin_singleFlight(c) ==
  /\ calls[c].pc = "idle"
  /\ IF cacheFresh(now)
       THEN /\ calls' = [calls EXCEPT ![c] = [IdleCall EXCEPT !.pc = "returned", !.now = now,
                                                              !.idx = cachedIndex]]
            /\ finished' = Append(finished, c)
            /\ UNCHANGED fetchLog
       ELSE /\ calls' = [calls EXCEPT ![c] = [IdleCall EXCEPT !.pc = "fetch", !.now = now,
                                                              !.fetched = TRUE]]
            /\ fetchLog' = IF \E d \in CallIds : calls[d].pc \in {"fetch", "json"}
                             THEN fetchLog ELSE Append(fetchLog, IndexUrl)
            /\ UNCHANGED finished
  /\ UNCHANGED <<raw, storage, request, cachedIndex, cacheExpiry, now, result, response,
                 contentVars, backupVars, updateVars, pruneVars>>

LoadIndexBegin(c) ==
  /\ calls[c].pc = "idle"
  /\ IF cacheFresh(now)
       THEN /\ calls' = [calls EXCEPT ![c] = [IdleCall EXCEPT !.pc = "returned", !.now = now,
                                                              !.idx = cachedIndex]]
            /\ finished' = Append(finished, c)
            /\ UNCHANGED fetchLog
       ELSE /\ calls' = [calls EXCEPT ![c] = [IdleCall EXCEPT !.pc = "fetch", !.now = now,
                                                              !.fetched = TRUE]]
            /\ fetchLog' = Append(fetchLog, IndexUrl)
            /\ UNCHANGED finished
  /\ UNCHANGED <<raw, storage, request, cachedIndex, cacheExpiry, now, result, response,
                 contentVars, backupVars, updateVars, pruneVars>>

\* the fetch settles: if (!res.ok) throw; otherwise the call awaits res.json()
\* of the document the origin served
FetchResolve(c, outcome) ==
  /\ calls[c].pc = "fetch"
  /\ IF outcome = "http_error"
       THEN /\ calls' = [calls EXCEPT ![c].pc = "threw", ![c].res = outcome]
            /\ finished' = Append(finished, c)
       ELSE /\ calls' = [calls EXCEPT ![c].pc = "json", ![c].res = outcome, ![c].doc = <<raw>>]
            /\ UNCHANGED finished
  /\ UNCHANGED <<raw, storage, request, cachedIndex, cacheExpiry, now, result, response,
                 fetchLog, contentVars, backupVars, updateVars, pruneVars>>

\* res.json() settles, were the expiry counted from the time of the assignment
JsonResolve_expiryAtEnd(c) ==
  /\ calls[c].pc = "json"
  /\ IF calls[c].res = "parse_error" \/ buildThrows(calls[c].doc[1])
       THEN /\ calls' = [calls EXCEPT ![c].pc = "threw"]
            /\ UNCHANGED <<cachedIndex, cacheExpiry>>
       ELSE /\ cachedIndex' = <<buildLookupMaps(calls[c].doc[1])>>
            /\ cacheExpiry' = now + INDEX_CACHE_TTL_MS
            /\ calls' = [calls EXCEPT ![c].pc = "returned", ![c].idx = cachedIndex']
  /\ finished' = Append(finished, c)
  /\ UNCHANGED <<raw, storage, request, now, result, response, fetchLog,
                 contentVars, backupVars, updateVars, pruneVars>>

\* res.json() settles, were the structure published and the expiry left for later
JsonResolve_expiryLater(c) ==
  /\ calls[c].pc = "json"
  /\ IF calls[c].res = "parse_error" \/ buildThrows(calls[c].doc[1])
       THEN /\ calls' = [calls EXCEPT ![c].pc = "threw"]
            /\ UNCHANGED <<cachedIndex, cacheExpiry>>
       ELSE /\ cachedIndex' = <<buildLookupMaps(calls[c].doc[1])>>
            /\ UNCHANGED cacheExpiry
            /\ calls' = [calls EXCEPT ![c].pc = "returned", ![c].idx = cachedIndex']
  /\ finished' = Append(finished, c)
  /\ UNCHANGED <<raw, storage, request, now, result, response, fetchLog,
                 contentVars, backupVars, updateVars, pruneVars>>

\* res.json() settles, were the cache written only by a call that read a later time
JsonResolve_keepNewer(c) ==
  /\ calls[c].pc = "json"
  /\ IF calls[c].res = "parse_error" \/ buildThrows(calls[c].doc[1])
       THEN /\ calls' = [calls EXCEPT ![c].pc = "threw"]
            /\ UNCHANGED <<cachedIndex, cacheExpiry>>
       ELSE /\ IF calls[c].now + INDEX_CACHE_TTL_MS > cacheExpiry
                 THEN /\ cachedIndex' = <<buildLookupMaps(calls[c].doc[1])>>
                      /\ cacheExpiry' = calls[c].now + INDEX_CACHE_TTL_MS
                 ELSE UNCHANGED <<cachedIndex, cacheExpiry>>
            /\ calls' = [calls EXCEPT ![c].pc = "returned",
                                      ![c].idx = <<buildLookupMaps(calls[c].doc[1])>>]
  /\ finished' = Append(finished, c)
  /\ UNCHANGED <<raw, storage, request, now, result, response, fetchLog,
                 contentVars, backupVars, updateVars, pruneVars>>

\* res.json() settles: a parse error or a TypeError of the builder is thrown;
\* otherwise the structure is built, then cachedIndex and cacheExpiry are
\* assigned and the structure returned, with no await in between
JsonResolve(c) ==
  /\ calls[c].pc = "json"
  /\ IF calls[c].res = "parse_error" \/ buildThrows(calls[c].doc[1])
       THEN /\ calls' = [calls EXCEPT ![c].pc = "threw"]
            /\ UNCHANGED <<cachedIndex, cacheExpiry>>
       ELSE /\ cachedIndex' = <<buildLookupMaps(calls[c].doc[1])>>
            /\ cacheExpiry' = calls[c].now + INDEX_CACHE_TTL_MS
            /\ calls' = [calls EXCEPT ![c].pc = "returned", ![c].idx = cachedIndex']
  /\ finished' = Append(finished, c)
  /\ UNCHANGED <<raw, storage, request, now, result, response, fetchLog,
                 contentVars, backupVars, updateVars, pruneVars>>

\* the origin replaces /search-index.json
Publish ==
  /\ raw' \in LoadDocs \ {raw}
  /\ UNCHANGED <<storage, request, cachedIndex, cacheExpiry, now, result, response,
                 fetchLog, loadVars, contentVars, backupVars, updateVars, pruneVars>>

Begin == \E c \in CallIds : LoadIndexBegin(c)

Fetched == \E c \in CallIds, outcome \in FetchOutcomes : FetchResolve(c, outcome)

Parsed == \E c \in CallIds : JsonResolve(c)

NextLoad == Begin \/ Fetched \/ Parsed \/ Publish \/ Tick

SpecLoad == InitLoad /\ [][NextLoad]_vars

(***************************************************************************)
(* Content function: edge cache first, then the storage backends in the    *)
(* order of env.STORAGE_ORDER.  storage[b].status "unconfigured" stands    *)
(* for an absent binding or URL, "down" for a backend whose requests fail. *)
(***************************************************************************)
endsWith(s, p) == Len(p) <= Len(s) /\ SubSeq(s, Len(s) - Len(p) + 1, Len(s)) = p

\* String.prototype.split for a one-character separator
split(s, sep) ==
  LET at    == {i \in 1..Len(s) : s[i] = sep}
      cut   == [k \in 0..(Cardinality(at) + 1) |->
                  IF k = 0 THEN 0
                  ELSE IF k = Cardinality(at) + 1 THEN Len(s) + 1
                  ELSE CHOOSE i \in at : Cardinality({j \in at : j < i}) = k - 1]
  IN  [k \in 1..(Cardinality(at) + 1) |-> SubSeq(s, cut[k - 1] + 1, cut[k] - 1)]

normalizePath(path) ==
  IF path = <<>> THEN <<"i","n","d","e","x",".","h","t","m","l">>
  ELSE IF endsWith(path, <<"/">>) THEN path \o <<"i","n","d","e","x",".","h","t","m","l">>
  ELSE path

\* STORAGE_BACKENDS: the X-Served-From name of each backend
STORAGE_BACKENDS == [r2 |-> "cloudflare-r2", do |-> "digitalocean-spaces", failover |-> "failover-origin"]

Configured(b) == storage[b].status # "unconfigured"

\* getSourceChain, were the order of the environment ignored
getSourceChain_defaultOrder ==
  SelectSeq(<<"r2", "do", "failover">>, LAMBDA b : Configured(b))

\* getSourceChain: the configured backends named in env.STORAGE_ORDER, in
\* its order; other names are passed over
getSourceChain ==
  LET orderStr == IF env.STORAGE_ORDER = <<>> THEN <<"r","2",",","d","o",",","f","a","i","l","o","v","e","r">> ELSE env.STORAGE_ORDER
      parts    == split(orderStr, ",")
      order    == [i \in 1..Len(parts) |-> toLowerCase(trim(parts[i]))]
      named    == [i \in 1..Len(order) |->
                     IF order[i] = <<"r","2">> THEN "r2"
                     ELSE IF order[i] = <<"d","o">> THEN "do"
                     ELSE IF order[i] = <<"f","a","i","l","o","v","e","r">> THEN "failover"
                     ELSE ""]
  IN  SelectSeq(named, LAMBDA b : b # "" /\ Configured(b))

\* buildResponse / the Response of fetchFromFailover
ContentResponse(source, path) ==
  [status |-> 200, servedFrom |-> source, cacheStatus |-> "", path |-> path, error |-> ""]

Got(resp, threw, log) == [resp |-> resp, threw |-> threw, log |-> log]

Asked(b, path) == [backend |-> b, path |-> path]

IndexOf(path) == path \o <<"/","i","n","d","e","x",".","h","t","m","l">>

\* fetchFromR2: the object, else that of path/index.html for a path that
\* does not end in .html; a failing binding throws
fetchFromR2(path) ==
  IF ~Configured("r2") THEN Got(<<>>, FALSE, <<>>)
  ELSE IF storage["r2"].status = "down" THEN Got(<<>>, TRUE, <<Asked("r2", path)>>)
  ELSE IF path \in storage["r2"].paths
    THEN Got(<<ContentResponse("cloudflare-r2", path)>>, FALSE, <<Asked("r2", path)>>)
  ELSE IF endsWith(path, <<".","h","t","m","l">>)
    THEN Got(<<>>, FALSE, <<Asked("r2", path)>>)
  ELSE IF IndexOf(path) \in storage["r2"].paths
    THEN Got(<<ContentResponse("cloudflare-r2", IndexOf(path))>>, FALSE,
             <<Asked("r2", path), Asked("r2", IndexOf(path))>>)
  ELSE Got(<<>>, FALSE, <<Asked("r2", path), Asked("r2", IndexOf(path))>>)

\* fetchFromSpaces: as fetchFromR2 over HTTP; failure is a rejected fetch
\* (thrown) or an error status other than 404 (no content)
fetchFromSpaces(path, failure) ==
  IF ~Configured("do") THEN Got(<<>>, FALSE, <<>>)
  ELSE IF storage["do"].status = "down"
    THEN Got(<<>>, failure = "throw", <<Asked("do", path)>>)
  ELSE IF path \in storage["do"].paths
    THEN Got(<<ContentResponse("digitalocean-spaces", path)>>, FALSE, <<Asked("do", path)>>)
  ELSE IF endsWith(path, <<".","h","t","m","l">>)
    THEN Got(<<>>, FALSE, <<Asked("do", path)>>)
  ELSE IF IndexOf(path) \in storage["do"].paths
    THEN Got(<<ContentResponse("digitalocean-spaces", IndexOf(path))>>, FALSE,
             <<Asked("do", path), Asked("do", IndexOf(path))>>)
  ELSE Got(<<>>, FALSE, <<Asked("do", path), Asked("do", IndexOf(path))>>)

\* fetchFromFailover: only when FAILOVER_ENABLED is 'true'; errors are caught
fetchFromFailover(path) ==
  IF ~env.FAILOVER_ENABLED \/ ~Configured("failover") THEN Got(<<>>, FALSE, <<>>)
  ELSE IF storage["failover"].status = "up" /\ path \in storage["failover"].paths
    THEN Got(<<ContentResponse("failover-origin", path)>>, FALSE, <<Asked("failover", path)>>)
  ELSE Got(<<>>, FALSE, <<Asked("failover", path)>>)

sourceFetch(b, path, failure) ==
  IF b = "r2" THEN fetchFromR2(path)
  ELSE IF b = "do" THEN fetchFromSpaces(path, failure)
  ELSE fetchFromFailover(path)

RECURSIVE Concat(_)
Concat(logs) == IF logs = <<>> THEN <<>> ELSE Head(logs) \o Concat(Tail(logs))

\* the response after the loop: X-Error is the message of lastError, which
\* stands here as the key of the backend that threw it
NotFoundResponse(path, lastError) ==
  [status |-> 404, servedFrom |-> "", cacheStatus |-> "MISS", path |-> path,
   error |-> IF lastError = <<>> THEN "not-found" ELSE lastError[1]]

\* the loop, were an exception of a source to end the request
tryChain_abortOnThrow(sources, path, failure) ==
  LET got   == [i \in 1..Len(sources) |-> sourceFetch(sources[i], path, failure)]
      ends  == {i \in 1..Len(sources) : got[i].resp # <<>> \/ got[i].threw}
      last  == IF ends = {} THEN Len(sources)
               ELSE CHOOSE i \in ends : \A j \in ends : i <= j
      found == ends # {} /\ got[last].resp # <<>>
  IN  [response |-> IF ~found
                      THEN NotFoundResponse(path, IF ends = {} THEN <<>> ELSE <<sources[last]>>)
                      ELSE [got[last].resp[1] EXCEPT !.cacheStatus = "MISS"],
       put      |-> IF ~found THEN <<>> ELSE got[last].resp,
       log      |-> Concat([i \in 1..last |-> got[i].log])]

\* the loop over the chain: the first response, or 404 after the last
\* source; an exception of a source is kept in lastError and the loop goes on
tryChain(sources, path, failure) ==
  LET got    == [i \in 1..Len(sources) |-> sourceFetch(sources[i], path, failure)]
      found  == {i \in 1..Len(sources) : got[i].resp # <<>>}
      last   == IF found = {} THEN Len(sources)
                ELSE CHOOSE i \in found : \A j \in found : i <= j
      thrown == {i \in 1..last : got[i].threw}
      lastError == IF thrown = {} THEN <<>>
                   ELSE <<sources[CHOOSE i \in thrown : \A j \in thrown : j <= i]>>
  IN  [response |-> IF found = {}
                      THEN NotFoundResponse(path, lastError)
                      ELSE [got[last].resp[1] EXCEPT !.cacheStatus = "MISS"],
       put      |-> IF found = {} THEN <<>> ELSE got[last].resp,
       log      |-> Concat([i \in 1..last |-> got[i].log])]

\* bound: a request path is one of ContentPaths
PathA == <<"a",".","i","o">>

ContentPaths == { PathA, PathA \o <<"/">>, PageAio, <<>> }

EnvOrders == { <<>>, <<"d","o",",","r","2",",","f","a","i","l","o","v","e","r">>, <<" ","F","a","i","l","o","v","e","r"," ",","," ","R","2">>, <<"s","3",",","d","o",",",",","r","2">> }

BackendStates ==
  { Backend("up", {PageAio}), Backend("up", {}), Backend("down", {PageAio}),
    Backend("unconfigured", {}) }

\* the paths of the query string and of the purge endpoint
SearchV1 == <<"?","v","=","1">>

PathPurge == <<"_","p","u","r","g","e">>

PurgeSecret == <<"s","3","c","r","e","t">>

Origin == <<"h","t","t","p","s",":","/","/","o">>

JsonBody(purge_all, urls) == [json |-> TRUE, purge_all |-> purge_all, urls |-> urls]

\* bodies of a purge request: one path, a path with a leading slash and a
\* full URL, a full URL with a query string, purge_all, no JSON
PurgeBodies ==
  { JsonBody(FALSE, <<PathA>>),
    JsonBody(FALSE, <<<<"/">> \o PageAio, Origin \o <<"/">> \o PathA \o <<"/">>>>),
    JsonBody(FALSE, <<Origin \o <<"/">> \o PathA \o SearchV1>>),
    JsonBody(TRUE, <<PathA>>),
    NoBody }

\* the requests that arrive: GET of a content path, with or without query
\* string, and POST /_purge
Arrivals ==
  {[path |-> p, http |-> Http("GET", q, <<>>, NoBody)] : p \in ContentPaths, q \in {<<>>, SearchV1}}
    \cup {[path |-> PathPurge, http |-> Http("POST", <<>>, k, b)] :
            k \in {<<>>, PurgeSecret, <<"x">>}, b \in PurgeBodies}

InitContent ==
  /\ raw = BareDoc(<<>>)
  /\ storage \in [{"r2", "do", "failover"} -> BackendStates]
  /\ request = <<>>
  /\ cachedIndex = <<>>
  /\ cacheExpiry = 0
  /\ now = 1
  /\ result = NoResult
  /\ response = NoResponse
  /\ fetchLog = <<>>
  /\ LoadIdle
  /\ env \in [STORAGE_ORDER : EnvOrders, FAILOVER_ENABLED : BOOLEAN,
              PURGE_SECRET : {<<>>, PurgeSecret}]
  /\ edgeCache = {}
  /\ \E a \in Arrivals : contentRequest = a.path /\ contentHttp = a.http
  /\ contentResponse = NoContentResponse
  /\ consulted = <<>>
  /\ BackupIdle
  /\ UpdateIdle
  /\ PruneIdle

\* the cache key, were it the whole URL of the request
getCacheKey_wholeUrl(path, qs) == Origin \o <<"/">> \o path \o qs

\* getCacheKey: a GET of `${url.origin}${url.pathname}`, for the path and the
\* query string of the request URL
getCacheKey(path, qs) == Origin \o <<"/">> \o path

\* path === '_purge' && request.method === 'POST'
IsPurge == normalizePath(contentRequest) = PathPurge /\ contentHttp.method = "POST"

\* onRequest for another request than a purge: the cached response of the
\* key, else the chain; a response of the chain is put in the edge cache
\* under the request's key
OnRequest(failure) ==
  /\ contentResponse = NoContentResponse
  /\ ~IsPurge
  /\ LET path     == normalizePath(contentRequest)
         cacheKey == getCacheKey(contentRequest, contentHttp.search)
         cached   == {e \in edgeCache : e.key = cacheKey}
         tried    == tryChain(getSourceChain, path, failure)
     IN  IF cached # {}
           THEN /\ contentResponse' = [(CHOOSE e \in cached : TRUE).response EXCEPT !.cacheStatus = "HIT"]
                /\ UNCHANGED <<edgeCache, consulted>>
           ELSE /\ contentResponse' = tried.response
                /\ consulted' = tried.log
                /\ edgeCache' = edgeCache \cup
                     {[key |-> cacheKey, response |-> tried.put[i]] : i \in 1..Len(tried.put)}
  /\ UNCHANGED <<raw, storage, request, cachedIndex, cacheExpiry, now, result, response,
                 fetchLog, loadVars, env, contentRequest, contentHttp, backupVars, updateVars, pruneVars>>

PurgeResponse(status) ==
  [status |-> status, servedFrom |-> "", cacheStatus |-> "", path |-> <<>>, error |-> ""]

\* urlToPurge: a listed URL that starts with http as it is, another one
\* after the origin, without its leading slash
urlToPurge(path) ==
  IF startsWith(path, <<"h","t","t","p">>) THEN path
  ELSE Origin \o <<"/">> \o (IF startsWith(path, <<"/">>) THEN Tail(path) ELSE path)

\* handlePurge, were the secret not compared
handlePurge_noSecretTest ==
  /\ contentResponse = NoContentResponse
  /\ IsPurge
  /\ IF env.PURGE_SECRET = <<>>
       THEN contentResponse' = PurgeResponse(501) /\ UNCHANGED edgeCache
     ELSE IF ~contentHttp.body.json
       THEN contentResponse' = PurgeResponse(400) /\ UNCHANGED edgeCache
     ELSE IF contentHttp.body.purge_all
       THEN contentResponse' = PurgeResponse(200) /\ UNCHANGED edgeCache
     ELSE /\ contentResponse' = PurgeResponse(200)
          /\ edgeCache' = {e \in edgeCache :
                             \A i \in 1..Len(contentHttp.body.urls) :
                               e.key # urlToPurge(contentHttp.body.urls[i])}
  /\ UNCHANGED <<raw, storage, request, cachedIndex, cacheExpiry, now, result, response,
                 fetchLog, loadVars, env, contentRequest, contentHttp, consulted, backupVars, updateVars, pruneVars>>

\* onRequest for POST /_purge: handlePurge
handlePurge ==
  /\ contentResponse = NoContentResponse
  /\ IsPurge
  /\ IF env.PURGE_SECRET = <<>>
       THEN contentResponse' = PurgeResponse(501) /\ UNCHANGED edgeCache
     ELSE IF contentHttp.secret # env.PURGE_SECRET
       THEN contentResponse' = PurgeResponse(401) /\ UNCHANGED edgeCache
     ELSE IF ~contentHttp.body.json
       THEN contentResponse' = PurgeResponse(400) /\ UNCHANGED edgeCache
     ELSE IF contentHttp.body.purge_all
       THEN contentResponse' = PurgeResponse(200) /\ UNCHANGED edgeCache
     ELSE /\ contentResponse' = PurgeResponse(200)
          /\ edgeCache' = {e \in edgeCache :
                             \A i \in 1..Len(contentHttp.body.urls) :
                               e.key # urlToPurge(contentHttp.body.urls[i])}
  /\ UNCHANGED <<raw, storage, request, cachedIndex, cacheExpiry, now, result, response,
                 fetchLog, loadVars, env, contentRequest, contentHttp, consulted, backupVars, updateVars, pruneVars>>

\* the next content request
NewContentRequest ==
  /\ contentResponse # NoContentResponse
  /\ \E a \in Arrivals : contentRequest' = a.path /\ contentHttp' = a.http
  /\ contentResponse' = NoContentResponse
  /\ consulted' = <<>>
  /\ UNCHANGED <<raw, storage, request, cachedIndex, cacheExpiry, now, result, response,
                 fetchLog, loadVars, env, edgeCache, backupVars, updateVars, pruneVars>>

Serve == \E failure \in {"throw", "status"} : OnRequest(failure)

NextContent == Serve \/ handlePurge \/ NewContentRequest

SpecContent == InitContent /\ [][NextContent]_vars

(***************************************************************************)
(* Upload scripts: daily backups guarded by marker files                   *)
(***************************************************************************)
\* bounds: the calendar days a behaviour spans and the syncs it runs
MaxDays == 2

MaxSyncs == 2

\* backup_needed, were any existing marker file taken for today's
backup_needed_anyMarker(marker_file, daily_setting, force_flag) ==
  IF force_flag = "true" THEN TRUE
  ELSE IF daily_setting # "true" THEN TRUE
  ELSE markers[marker_file] = 0

\* backup_needed: return 0 is TRUE
backup_needed(marker_file, daily_setting, force_flag) ==
  IF force_flag = "true" THEN TRUE
  ELSE IF daily_setting # "true" THEN TRUE
  ELSE ~(markers[marker_file] # 0 /\ markers[marker_file] = TODAY)

InitBackup ==
  /\ raw = BareDoc(<<>>)
  /\ storage = StorageEmpty
  /\ request = <<>>
  /\ cachedIndex = <<>>
  /\ cacheExpiry = 0
  /\ now = 1
  /\ result = NoResult
  /\ response = NoResponse
  /\ fetchLog = <<>>
  /\ LoadIdle
  /\ ContentIdle
  /\ BackupIdle
  /\ UpdateIdle
  /\ PruneIdle

\* setup_common_vars at the start of an upload script: TODAY=$(date '+%Y-%m-%d')
setup_common_vars ==
  /\ TODAY = 0
  /\ TODAY' = day
  /\ UNCHANGED <<raw, storage, request, cachedIndex, cacheExpiry, now, result, response,
                 fetchLog, loadVars, contentVars, updateVars, pruneVars, day, markers, syncLog, lastCall>>

\* create_local_backup: when backup_needed, the bucket is synced to a local
\* directory and, whatever the sync yields, TODAY is written to the marker
create_local_backup(marker_file, force_flag, daily_setting) ==
  /\ TODAY # 0
  /\ lastCall' = [fn |-> "local", marker |-> marker_file, force |-> force_flag,
                  daily |-> daily_setting, day |-> day, today |-> TODAY,
                  before |-> markers[marker_file],
                  ran |-> backup_needed(marker_file, daily_setting, force_flag)]
  /\ IF backup_needed(marker_file, daily_setting, force_flag)
       THEN /\ Len(syncLog) < MaxSyncs
            /\ syncLog' = Append(syncLog, [target |-> "LOCAL_BACKUP_DIR", marker |-> marker_file,
                                           day |-> day, today |-> TODAY,
                                           daily |-> force_flag # "true" /\ daily_setting = "true"])
            /\ markers' = [markers EXCEPT ![marker_file] = TODAY]
       ELSE UNCHANGED <<syncLog, markers>>
  /\ UNCHANGED <<raw, storage, request, cachedIndex, cacheExpiry, now, result, response,
                 fetchLog, loadVars, contentVars, updateVars, pruneVars, day, TODAY>>

\* create_remote_backup: the same with the bucket's _backups as target
create_remote_backup(marker_file, force_flag, daily_setting) ==
  /\ TODAY # 0
  /\ lastCall' = [fn |-> "remote", marker |-> marker_file, force |-> force_flag,
                  daily |-> daily_setting, day |-> day, today |-> TODAY,
                  before |-> markers[marker_file],
                  ran |-> backup_needed(marker_file, daily_setting, force_flag)]
  /\ IF backup_needed(marker_file, daily_setting, force_flag)
       THEN /\ Len(syncLog) < MaxSyncs
            /\ syncLog' = Append(syncLog, [target |-> "_backups", marker |-> marker_file,
                                           day |-> day, today |-> TODAY,
                                           daily |-> force_flag # "true" /\ daily_setting = "true"])
            /\ markers' = [markers EXCEPT ![marker_file] = TODAY]
       ELSE UNCHANGED <<syncLog, markers>>
  /\ UNCHANGED <<raw, storage, request, cachedIndex, cacheExpiry, now, result, response,
                 fetchLog, loadVars, contentVars, updateVars, pruneVars, day, TODAY>>

\* the script ends
ScriptExit ==
  /\ TODAY # 0
  /\ TODAY' = 0
  /\ UNCHANGED <<raw, storage, request, cachedIndex, cacheExpiry, now, result, response,
                 fetchLog, loadVars, contentVars, updateVars, pruneVars, day, markers, syncLog, lastCall>>

\* midnight passes
NextDay ==
  /\ day < MaxDays
  /\ day' = day + 1
  /\ UNCHANGED <<raw, storage, request, cachedIndex, cacheExpiry, now, result, response,
                 fetchLog, loadVars, contentVars, updateVars, pruneVars, TODAY, markers, syncLog, lastCall>>

Flags == {"true", "false"}

LocalBackup ==
  \E m \in MarkerFiles, force \in Flags, daily \in Flags : create_local_backup(m, force, daily)

RemoteBackup ==
  \E m \in MarkerFiles, force \in Flags, daily \in Flags : create_remote_backup(m, force, daily)

NextBackup == setup_common_vars \/ LocalBackup \/ RemoteBackup \/ ScriptExit \/ NextDay

SpecBackup == InitBackup /\ [][NextBackup]_vars

(***************************************************************************)
(* The update script: allium, the uploads in the background, the CDN purge *)
(* and the background prune, under set -euo pipefail                       *)
(***************************************************************************)
\* bound: the runs of the update script, one after the other
MaxRuns == 4

InitUpdate ==
  /\ raw = BareDoc(<<>>)
  /\ storage = StorageEmpty
  /\ request = <<>>
  /\ cachedIndex = <<>>
  /\ cacheExpiry = 0
  /\ now = 1
  /\ result = NoResult
  /\ response = NoResponse
  /\ fetchLog = <<>>
  /\ LoadIdle
  /\ ContentIdle
  /\ BackupIdle
  /\ UpdateIdle
  /\ PruneIdle

\* cat "$CONSECUTIVE_FAILURES_FILE" 2>/dev/null || echo 0
get_failures == failuresFile

\* echo $(($(get_failures) + 1)) > "$CONSECUTIVE_FAILURES_FILE"
increment_failures == get_failures + 1

\* echo 0 > "$CONSECUTIVE_FAILURES_FILE"
reset_failures == 0

\* [ "$failures" -lt 3 ]
pruneGate(failures) == failures < 3

\* [[ -n "${PRUNE_PID:-}" ]] && kill "$PRUNE_PID" 2>/dev/null || true
killPrune(r) == IF r.prune = "running" THEN "killed" ELSE r.prune

\* the script ends with the given status
Exited(r, status) == [r EXCEPT !.pc = "exited", !.exit = status]

\* what is kept of a run that has ended: whether an upload succeeded in it
\* and whether it started the prune
Ended(r) == [failed |-> ~(r.r2 = "ok" \/ r.do = "ok"), pruned |-> r.prune # "none"]

OtherThanUpdate ==
  UNCHANGED <<raw, storage, request, cachedIndex, cacheExpiry, now, result, response,
              fetchLog, loadVars, contentVars, backupVars, pruneVars>>

\* the script starts: config.env is sourced, the count is read and the
\* prune is started in the background when the count is below 3
UpdateStart ==
  /\ run.pc \in {"idle", "exited"}
  /\ Len(runLog) < MaxRuns
  /\ \E r2on \in BOOLEAN, doon \in BOOLEAN, secret \in BOOLEAN :
       run' = [NoRun EXCEPT !.pc = "allium", !.failures = get_failures,
                            !.R2_ENABLED = r2on, !.DO_ENABLED = doon, !.PURGE_SECRET = secret,
                            !.prune = IF pruneGate(get_failures) THEN "running" ELSE "none"]
  /\ UNCHANGED <<failuresFile, runLog>>
  /\ OtherThanUpdate

\* Step 1: cd "$ALLIUM_DIR", where set -e ends the script when the
\* directory cannot be entered, then python3 allium.py: on failure the count
\* is incremented, the prune killed and the script exits 1
RunAllium(outcome) ==
  /\ run.pc = "allium"
  /\ IF outcome = "cd_failed"
       THEN /\ run' = Exited(run, 1)
            /\ runLog' = Append(runLog, Ended(run'))
            /\ UNCHANGED failuresFile
     ELSE IF outcome = "failed"
       THEN /\ failuresFile' = increment_failures
            /\ run' = Exited([run EXCEPT !.prune = killPrune(run)], 1)
            /\ runLog' = Append(runLog, Ended(run'))
     ELSE /\ run' = [run EXCEPT !.pc = "upload"]
          /\ UNCHANGED <<failuresFile, runLog>>
  /\ OtherThanUpdate

\* Step 2: the enabled uploads are started in the background
StartUploads ==
  /\ run.pc = "upload"
  /\ run' = [run EXCEPT !.pc = "wait",
                        !.r2 = IF run.R2_ENABLED THEN "running" ELSE "off",
                        !.do = IF run.DO_ENABLED THEN "running" ELSE "off"]
  /\ UNCHANGED <<failuresFile, runLog>>
  /\ OtherThanUpdate

\* an upload script ends, with status 0 or another one
UploadEnds(b, ok) ==
  /\ run.pc = "wait"
  /\ run[b] = "running"
  /\ run' = [run EXCEPT ![b] = IF ok THEN "ok" ELSE "failed"]
  /\ UNCHANGED <<failuresFile, runLog>>
  /\ OtherThanUpdate

\* wait "$R2_PID", wait "$DO_PID": UPLOAD_SUCCESS is true when one of them
\* ended with status 0
WaitUploads ==
  /\ run.pc = "wait"
  /\ run.r2 # "running"
  /\ run.do # "running"
  /\ run' = [run EXCEPT !.pc = "check",
                        !.UPLOAD_SUCCESS = (run.r2 = "ok" \/ run.do = "ok")]
  /\ UNCHANGED <<failuresFile, runLog>>
  /\ OtherThanUpdate

\* the test of UPLOAD_SUCCESS: the count is reset, or incremented, the
\* prune killed and the script exits 1
CheckUploads ==
  /\ run.pc = "check"
  /\ IF run.UPLOAD_SUCCESS
       THEN /\ failuresFile' = reset_failures
            /\ run' = [run EXCEPT !.pc = "purge"]
            /\ UNCHANGED runLog
       ELSE /\ failuresFile' = increment_failures
            /\ run' = Exited([run EXCEPT !.prune = killPrune(run)], 1)
            /\ runLog' = Append(runLog, Ended(run'))
  /\ OtherThanUpdate

\* Step 3: purge_cdn returns at once without PURGE_SECRET; otherwise it posts
\* the batches with curl, and a curl that fails ends the script (set -e on
\* purge_response=$(curl ...)) with curl's status
purge_cdn(outcome) ==
  /\ run.pc = "purge"
  /\ IF ~run.PURGE_SECRET
       THEN /\ run' = [run EXCEPT !.pc = "wait_prune"]
            /\ UNCHANGED runLog
     ELSE IF outcome = "curl_failed"
       THEN /\ run' = Exited([run EXCEPT !.purged = TRUE], 7)
            /\ runLog' = Append(runLog, Ended(run'))
     ELSE /\ run' = [run EXCEPT !.pc = "wait_prune", !.purged = TRUE]
          /\ UNCHANGED runLog
  /\ UNCHANGED failuresFile
  /\ OtherThanUpdate

\* wait "$PRUNE_PID" when the prune is still running, then the script ends
WaitPrune ==
  /\ run.pc = "wait_prune"
  /\ run.prune # "running"
  /\ run' = Exited(run, 0)
  /\ runLog' = Append(runLog, Ended(run'))
  /\ UNCHANGED failuresFile
  /\ OtherThanUpdate

\* the prune script ends by itself
PruneEnds ==
  /\ run.prune = "running"
  /\ run' = [run EXCEPT !.prune = "finished"]
  /\ UNCHANGED <<failuresFile, runLog>>
  /\ OtherThanUpdate

Allium == \E outcome \in {"ok", "failed", "cd_failed"} : RunAllium(outcome)

UploadDone == \E b \in {"r2", "do"}, ok \in BOOLEAN : UploadEnds(b, ok)

PurgeCdn == \E outcome \in {"ok", "curl_failed"} : purge_cdn(outcome)

NextUpdate ==
  \/ UpdateStart
  \/ Allium
  \/ StartUploads
  \/ UploadDone
  \/ WaitUploads
  \/ CheckUploads
  \/ PurgeCdn
  \/ WaitPrune
  \/ PruneEnds

SpecUpdate == InitUpdate /\ [][NextUpdate]_vars

(***************************************************************************)
(* The prune script, under set -euo pipefail, while an upload script may   *)
(* add a backup.  A backup stands as the number of its timestamp: a larger *)
(* number is a more recent backup, by name and by modification time        *)
(***************************************************************************)
\* KEEP_BACKUPS="${KEEP_BACKUPS:-5}"
KEEP_BACKUPS == 5

SAFETY_BUFFER == 2

\* bound: the backups a location holds when the prune starts
MaxBackups == 9

\* the backup an upload script adds while the prune runs
NewBackup == MaxBackups + 1

\* tail -n +$((KEEP_BACKUPS + 1)) of a listing sorted most recent first
olderThanKept(listing) ==
  {b \in listing : Cardinality({c \in listing : c > b}) >= KEEP_BACKUPS}

\* sort -r (and ls -t): most recent first
RECURSIVE sortRecentFirst(_)
sortRecentFirst(S) ==
  IF S = {} THEN <<>>
  ELSE LET m == CHOOSE b \in S : \A c \in S : c <= b
       IN  <<m>> \o sortRecentFirst(S \ {m})

\* the test of a count, were there no safety buffer
pruneNeeded_noBuffer(count) == count > KEEP_BACKUPS

\* [ "$count" -gt "$((KEEP_BACKUPS + SAFETY_BUFFER))" ]
pruneNeeded(count) == count > KEEP_BACKUPS + SAFETY_BUFFER

InitPrune ==
  /\ raw = BareDoc(<<>>)
  /\ storage = StorageEmpty
  /\ request = <<>>
  /\ cachedIndex = <<>>
  /\ cacheExpiry = 0
  /\ now = 1
  /\ result = NoResult
  /\ response = NoResponse
  /\ fetchLog = <<>>
  /\ LoadIdle
  /\ ContentIdle
  /\ BackupIdle
  /\ UpdateIdle
  /\ \E n \in 0..MaxBackups, m \in 0..MaxBackups :
       backups = [l \in Locations |-> IF l = "local" THEN 1..n ELSE 1..m]
  /\ prune = NoPrune

OtherThanPrune ==
  UNCHANGED <<raw, storage, request, cachedIndex, cacheExpiry, now, result, response,
              fetchLog, loadVars, contentVars, backupVars, updateVars>>

\* the script starts
PruneStart(dir) ==
  /\ prune.pc = "idle"
  /\ backups["local"] # {} => dir
  /\ prune' = [NoPrune EXCEPT !.pc = "local", !.dir = dir, !.start = backups]
  /\ UNCHANGED backups
  /\ OtherThanPrune

\* local_count=$(ls -1d .../backup-* 2>/dev/null | wc -l) and its test: with
\* no backup-* entry ls fails and set -e with pipefail ends the script
LocalCount ==
  /\ prune.pc = "local"
  /\ prune' = IF ~prune.dir THEN [prune EXCEPT !.pc = "r2"]
              ELSE IF backups["local"] = {} THEN [prune EXCEPT !.pc = "done"]
              ELSE [prune EXCEPT !.count["local"] = Cardinality(backups["local"]),
                                 !.pc = IF pruneNeeded(Cardinality(backups["local"]))
                                          THEN "local_delete" ELSE "r2"]
  /\ UNCHANGED backups
  /\ OtherThanPrune

\* ls -1dt ... | tail -n +$((KEEP_BACKUPS + 1)) | xargs rm -rf
LocalDelete ==
  /\ prune.pc = "local_delete"
  /\ backups' = [backups EXCEPT !["local"] = @ \ olderThanKept(@)]
  /\ prune' = [prune EXCEPT !.pc = "r2", !.listed["local"] = backups["local"]]
  /\ OtherThanPrune

\* r2_count=$($RCLONE lsf ... | wc -l) and its test; an rclone that fails
\* ends the script
R2Count(lsf) ==
  /\ prune.pc = "r2"
  /\ prune' = IF lsf = "failed" THEN [prune EXCEPT !.pc = "done"]
              ELSE [prune EXCEPT !.count["r2"] = Cardinality(backups["r2"]),
                                 !.pc = IF pruneNeeded(Cardinality(backups["r2"]))
                                          THEN "r2_list" ELSE "done"]
  /\ UNCHANGED backups
  /\ OtherThanPrune

\* r2_to_delete=$($RCLONE lsf ... | sort -r | tail -n +$((KEEP_BACKUPS + 1)))
R2List(lsf) ==
  /\ prune.pc = "r2_list"
  /\ prune' = IF lsf = "failed" THEN [prune EXCEPT !.pc = "done"]
              ELSE [prune EXCEPT !.pc = "r2_purge", !.listed["r2"] = backups["r2"],
                                 !.r2_to_delete = sortRecentFirst(olderThanKept(backups["r2"]))]
  /\ UNCHANGED backups
  /\ OtherThanPrune

\* the loop: $RCLONE purge ... || true for the next backup of the list
R2Purge(ok) ==
  /\ prune.pc = "r2_purge"
  /\ prune.r2_to_delete # <<>>
  /\ backups' = IF ok THEN [backups EXCEPT !["r2"] = @ \ {Head(prune.r2_to_delete)}]
                ELSE backups
  /\ prune' = [prune EXCEPT !.r2_to_delete = Tail(@),
                            !.kept = IF ok THEN @ ELSE @ \cup {Head(prune.r2_to_delete)}]
  /\ OtherThanPrune

\* the list is done: the script ends
PruneFinish ==
  /\ prune.pc = "r2_purge"
  /\ prune.r2_to_delete = <<>>
  /\ prune' = [prune EXCEPT !.pc = "done"]
  /\ UNCHANGED backups
  /\ OtherThanPrune

\* an upload script creates a backup while the prune runs
AddBackup(l) ==
  /\ prune.pc \notin {"idle", "done"}
  /\ NewBackup \notin backups[l]
  /\ NewBackup \notin prune.listed[l]
  /\ l = "local" => prune.dir
  /\ backups' = [backups EXCEPT ![l] = @ \cup {NewBackup}]
  /\ UNCHANGED prune
  /\ OtherThanPrune

Start == \E dir \in BOOLEAN : PruneStart(dir)

CountR2 == \E lsf \in {"ok", "failed"} : R2Count(lsf)

ListR2 == \E lsf \in {"ok", "failed"} : R2List(lsf)

PurgeR2 == \E ok \in BOOLEAN : R2Purge(ok)

Upload == \E l \in Locations : AddBackup(l)

NextPrune ==
  \/ Start
  \/ LocalCount
  \/ LocalDelete
  \/ CountR2
  \/ ListR2
  \/ PurgeR2
  \/ PruneFinish
  \/ Upload

SpecPrune == InitPrune /\ [][NextPrune]_vars

(***************************************************************************)
(* Properties                                                              *)
(***************************************************************************)
\* the validated query of the request, the structure it was classified
\* against, and whether the classifier ran for the request in flight
Q == validateQuery(request).q

Idx == cachedIndex[1]

Searched == result # NoResult

Relays == Field(raw, "relays")

\* C1: a validated query of exactly 40 hexadecimal characters whose uppercase
\* form is a key neither of the fingerprint map nor of the family-id map is
\* answered not_found, whatever else the index contains.
C1_UnknownFullFingerprintNotFound ==
  (/\ Searched
   /\ RE_FULL_FINGERPRINT(Q)
   /\ ~MapHas(Idx.fpMap, toUpperCase(Q))
   /\ ~MapHas(Idx.familyIdMap, toUpperCase(Q)))
    => result = NotFound

\* an unknown full fingerprint that is also the nickname of a relay
C1_Witness ==
  /\ Searched
  /\ RE_FULL_FINGERPRINT(Q)
  /\ ~MapHas(Idx.fpMap, toUpperCase(Q))
  /\ ~MapHas(Idx.familyIdMap, toUpperCase(Q))
  /\ \E i \in 1..Len(Relays) : toLowerCase(Relays[i].n) = toLowerCase(Q)
  /\ result = NotFound
  /\ response.status = 404

(***************************************************************************)
(* What each stage has to find, read off the index document itself         *)
(***************************************************************************)
QLow == toLowerCase(Q)

QUp == toUpperCase(Q)

AsEntries == Field(raw, "autonomous_systems")

CountryEntries == Field(raw, "countries")

ContactEntries == Field(raw, "contacts")

FamilyEntries == Field(raw, "families")

MaxOf(S) == CHOOSE i \in S : \A j \in S : j <= i

MinOf(S) == CHOOSE i \in S : \A j \in S : i <= j

\* the digits of a query of the form d, "AS" d or "as" d (any case), else <<>>
AsDigitsOf(q) ==
  LET body == IF Len(q) >= 2 /\ LowerChar(q[1]) = "a" /\ LowerChar(q[2]) = "s"
                THEN SubSeq(q, 3, Len(q)) ELSE q
  IN  IF Len(body) \in 1..10 /\ \A i \in 1..Len(body) : body[i] \in DigitChars
        THEN body ELSE <<>>

AsNumOf(q) == <<"A","S">> \o AsDigitsOf(q)

AsKnown(asNum) ==
  \/ \E i \in 1..Len(Relays) : Relays[i].as # <<>> /\ toUpperCase(Relays[i].as) = asNum
  \/ \E i \in 1..Len(AsEntries) :
       AsEntries[i].num # <<>> /\ toUpperCase(AsEntries[i].num) = asNum

\* the distinct fingerprints of the index that start with the uppercased query
FpKeys == {Relays[i].f : i \in {j \in 1..Len(Relays) :
                                  Relays[j].f # <<>> /\ startsWith(Relays[j].f, QUp)}}

NamePos == {i \in 1..Len(CountryEntries) :
              /\ CountryEntries[i].name # <<>> /\ CountryEntries[i].code # <<>>
              /\ toLowerCase(CountryEntries[i].name) = QLow}

DomainPos == {i \in 1..Len(ContactEntries) :
                ContactEntries[i].domain # <<>> /\ toLowerCase(ContactEntries[i].domain) = QLow}

HashPos == {i \in 1..Len(ContactEntries) :
              ContactEntries[i].hash # <<>> /\ toLowerCase(ContactEntries[i].hash) = QLow}

IpPos == {i \in 1..Len(Relays) : \E j \in 1..Len(Relays[i].ip) : Relays[i].ip[j] = Q}

NickPos == {i \in 1..Len(Relays) : Relays[i].n # <<>> /\ toLowerCase(Relays[i].n) = QLow}

PrefixPos == {i \in 1..Len(FamilyEntries) :
                FamilyEntries[i].prefix # <<>> /\ toLowerCase(FamilyEntries[i].prefix) = QLow}

\* relays whose nickname starts with / contains the lowercased query
StartPos == {i \in 1..Len(Relays) :
               Relays[i].n # <<>> /\ startsWith(toLowerCase(Relays[i].n), QLow)}

ContainPos == {i \in 1..Len(Relays) :
                 Relays[i].n # <<>> /\ includes(toLowerCase(Relays[i].n), QLow)}

\* Matches(k): stage k of the fixed order has a match for the query
Matches(k) ==
  CASE k = 1  -> RE_FULL_FINGERPRINT(Q)
    [] k = 2  -> Len(Q) \in 6..39 /\ (\A i \in 1..Len(Q) : Q[i] \in HexChars) /\ FpKeys # {}
    [] k = 3  -> AsDigitsOf(Q) # <<>> /\ AsKnown(AsNumOf(Q))
    [] k = 4  -> /\ Len(Q) = 2 /\ IsLetter(Q[1]) /\ IsLetter(Q[2])
                 /\ \/ \E i \in 1..Len(Relays) :
                         Relays[i].cc # <<>> /\ toLowerCase(Relays[i].cc) = QLow
                    \/ \E i \in 1..Len(CountryEntries) :
                         /\ CountryEntries[i].code # <<>>
                         /\ toLowerCase(CountryEntries[i].code) = QLow
    [] k = 5  -> NamePos # {}
    [] k = 6  -> QLow \in KNOWN_PLATFORMS
    [] k = 7  -> QLow \in KNOWN_FLAGS
    [] k = 8  -> DomainPos \cup HashPos # {}
    [] k = 9  -> (RE_IPV4(Q) \/ (includes(Q, <<":">>) /\ RE_IPV6_CHARS(Q))) /\ IpPos # {}
    [] k = 10 -> NickPos # {}
    [] k = 11 -> PrefixPos # {}
    [] OTHER  -> TRUE

\* the first stage of the fixed order that has a match
FirstStage == MinOf({k \in 1..12 : Matches(k)})

\* Expected(k): the result is the one stage k has to give
Expected(k) ==
  CASE k = 1  -> result = IF \E i \in 1..Len(Relays) : Relays[i].f = QUp
                            THEN Single("relay", QUp)
                          ELSE IF \E i \in 1..Len(FamilyEntries) : FamilyEntries[i].id = QUp
                            THEN Single("family", QUp)
                          ELSE NotFound
    [] k = 2  -> IF Cardinality(FpKeys) = 1
                   THEN result = Single("relay", CHOOSE f \in FpKeys : TRUE)
                 ELSE /\ result.type = "multiple"
                      /\ Len(result.matches) =
                           (IF Cardinality(FpKeys) < MAX_RESULTS
                              THEN Cardinality(FpKeys) ELSE MAX_RESULTS)
                      /\ \A m \in 1..Len(result.matches) : result.matches[m].f \in FpKeys
    [] k = 3  -> result = Single("as", AsNumOf(Q))
    [] k = 4  -> result = Single("country", QLow)
    [] k = 5  -> result = Single("country", toLowerCase(CountryEntries[MaxOf(NamePos)].code))
    [] k = 6  -> result = Single("platform", QLow)
    [] k = 7  -> result = Single("flag", QLow)
    [] k = 8  -> result = Single("contact",
                                 IF DomainPos # {} THEN ContactEntries[MaxOf(DomainPos)].hash
                                 ELSE ContactEntries[MaxOf(HashPos)].hash)
    [] k = 9  -> result = Single("relay", Relays[MaxOf(IpPos)].f)
    [] k = 10 -> result = Single("relay", Relays[MinOf(NickPos)].f)
    [] k = 11 -> result = Single("family", FamilyEntries[MaxOf(PrefixPos)].id)
    [] OTHER  -> \/ result = NotFound
                 \/ result.type = "relay" /\ \E i \in ContainPos : Relays[i].f = result.id
                 \/ result.type = "family" /\ \E i \in StartPos : Relays[i].fam = result.id
                 \/ /\ result.type = "multiple"
                    /\ \A m \in 1..Len(result.matches) :
                         \E i \in ContainPos : relayResult(Relays[i]) = result.matches[m]

\* C2: search returns the result of the first stage that matches, in the
\* order full fingerprint, partial fingerprint, AS number, country code,
\* country name, platform, flag, contact, IP address, exact nickname, family
\* prefix, nickname scan; a later stage never pre-empts an earlier one.
C2_FirstMatchingStageWins == Searched => Expected(FirstStage)

\* a known country code that is also the nickname of a relay yields the country
C2_Witness ==
  /\ Searched
  /\ FirstStage = 4
  /\ Matches(10)
  /\ result = Single("country", QLow)

\* the query is made of 6 to 39 hexadecimal characters
PartialQuery == Len(Q) \in 6..39 /\ \A i \in 1..Len(Q) : Q[i] \in HexChars

\* C3: for a query of 6 to 39 hexadecimal characters, exactly one fingerprint
\* starting with the uppercased query gives that relay; with at least one
\* such fingerprint the result is made of fingerprint matches only (no
\* nickname stage has a say); with none the result is the one of the stages
\* from the AS number onward for the same literal string.
C3_PartialFingerprint ==
  (Searched /\ PartialQuery) =>
    /\ Cardinality(FpKeys) = 1 => result = Single("relay", CHOOSE f \in FpKeys : TRUE)
    /\ FpKeys # {} =>
         /\ result.type \in {"relay", "multiple"}
         /\ result.type = "relay" => result.id \in FpKeys
         /\ \A m \in 1..Len(result.matches) : result.matches[m].f \in FpKeys
         /\ result.hint.q = <<>>
    /\ FpKeys = {} => result = searchFromAS(Q, Idx)

\* a prefix written in lower case that singles out one relay
C3_Witness ==
  /\ Searched
  /\ PartialQuery
  /\ Q # QUp
  /\ Cardinality(FpKeys) = 1
  /\ result.type = "relay"
  /\ response.status = 302

\* the query has one of the three forms d, "AS" d, "as" d for 1 to 10 digits d
AsForm ==
  /\ AsDigitsOf(Q) # <<>>
  /\ Q \in {AsDigitsOf(Q), <<"A","S">> \o AsDigitsOf(Q), <<"a","s">> \o AsDigitsOf(Q)}

\* C4 as stated: whenever AS<d> is in the AS set, each of the queries "AS" d,
\* "as" d and d returns the AS result with id "AS" d, for every index.
C4_AsFormsResolveToAs ==
  (Searched /\ AsForm /\ AsNumOf(Q) \in Idx.asSet) => result = Single("as", AsNumOf(Q))

\* C4 amended: the same, except for bare digits that are the prefix of a
\* relay fingerprint (6 or more digits), which the partial-fingerprint stage
\* answers first.
C4_AsFormsResolveToAsUnlessFingerprint ==
  (Searched /\ AsForm /\ AsNumOf(Q) \in Idx.asSet /\ ~(PartialQuery /\ FpKeys # {}))
    => result = Single("as", AsNumOf(Q))

\* six bare digits, no fingerprint starting with them, resolved to the AS
C4_Witness ==
  /\ Searched
  /\ AsForm
  /\ Q = AsDigitsOf(Q)
  /\ PartialQuery
  /\ FpKeys = {}
  /\ AsNumOf(Q) \in Idx.asSet
  /\ result = Single("as", AsNumOf(Q))

Least(a, b) == IF a < b THEN a ELSE b

\* C5 as stated: when k >= 2 relays share the queried nickname (compared
\* case-insensitively) and no earlier stage matches, search returns a
\* multiple result listing all of them (up to 20) with the count k in its
\* hint, never a single relay.
C5_NicknameCollisionListsAll ==
  (Searched /\ FirstStage = 10 /\ Cardinality(NickPos) >= 2) =>
    /\ result.type = "multiple"
    /\ Len(result.matches) = Least(Cardinality(NickPos), MAX_RESULTS)
    /\ \A m \in 1..Len(result.matches) :
         \E i \in NickPos : relayResult(Relays[i]) = result.matches[m]
    /\ result.hint.count = numToString(Cardinality(NickPos))

\* the nickname scan decides, no relay nickname starts with the query and
\* n relays have a nickname that contains it
ContainsOnly(n) ==
  Searched /\ FirstStage = 12 /\ StartPos = {} /\ Cardinality(ContainPos) = n

\* the result lists min(n, 20) of the containing relays and its hint states n
ListsWithTrueCount(n) ==
  /\ result.type = "multiple"
  /\ Len(result.matches) = Least(n, MAX_RESULTS)
  /\ \A m \in 1..Len(result.matches) :
       \E i \in ContainPos : relayResult(Relays[i]) = result.matches[m]
  /\ result.hint.count = numToString(n)

\* C6 as stated: for every N >= 2 relays whose nickname contains the query
\* (no earlier stage, no prefix match), also for N > 20 and N > 40, the result
\* is a multiple result of exactly min(N, 20) relays whose hint states N.
C6_ContainsListsTwentyWithTrueCount ==
  \A n \in 2..Len(Relays) : ContainsOnly(n) => ListsWithTrueCount(n)

\* C6 amended: so it is for 2 <= N <= 40; for N > 40 the result is not_found.
C6_ContainsListsTwentyUpToForty ==
  \A n \in 2..Len(Relays) :
    ContainsOnly(n) => IF n <= 2 * MAX_RESULTS THEN ListsWithTrueCount(n)
                       ELSE result = NotFound

\* more containing relays than are listed: 20 shown, the hint states the total
C6_Witness ==
  \E n \in (MAX_RESULTS + 1)..Len(Relays) :
    /\ ContainsOnly(n)
    /\ Len(result.matches) = MAX_RESULTS
    /\ result.hint.count = numToString(n)
    /\ response.status = 200

\* only word characters and hyphens
WordOrHyphen(s) == \A i \in 1..Len(s) : IsWord(s[i]) \/ s[i] = "-"

\* C7: every 302 for a resolved query goes to a path that starts with an
\* allowlisted prefix, contains no "://" and does not start with "//"; a
\* record whose id has a character outside word characters and hyphen
\* (so "://" or "/") never leads to a 302.
C7_RedirectTargetsAreSafe ==
  /\ (validateQuery(request).ok /\ response.status = 302) =>
       /\ Searched
       /\ \E i \in 1..Len(SAFE_REDIRECT_PREFIXES) :
            startsWith(response.location, SAFE_REDIRECT_PREFIXES[i])
       /\ ~includes(response.location, <<":","/","/">>)
       /\ ~startsWith(response.location, <<"/","/">>)
       /\ response.location =
            <<"/">> \o RESULT_TYPE_PATHS(result.type) \o <<"/">> \o result.id \o <<"/">>
  /\ (Searched /\ ~WordOrHyphen(result.id)) => response.status # 302

\* a query resolved to a record whose id contains "://": no redirect
C7_Witness ==
  /\ Searched
  /\ result.type \in {"relay", "family", "contact"}
  /\ includes(result.id, <<":","/","/">>)
  /\ response.status = 503

\* the operator page of the queried domain exists in no storage backend
NoOperatorPage ==
  \A b \in DOMAIN storage : (QLow \o <<"/","i","n","d","e","x",".","h","t","m","l">>) \notin storage[b].paths

ContactPath(hash) == <<"/","c","o","n","t","a","c","t","/">> \o hash \o <<"/">>

\* C8: when the query matches an operator domain that has no generated page
\* in any storage backend, the redirect goes to /contact/{hash}/ and never
\* to /{domain}/.
C8_DomainWithoutPageRedirectsToHash ==
  (Searched /\ FirstStage = 8 /\ DomainPos # {} /\ NoOperatorPage) =>
    LET hash == ContactEntries[MaxOf(DomainPos)].hash
    IN  /\ response.status = 302 => response.location = ContactPath(hash)
        /\ response.location # <<"/">> \o QLow \o <<"/">>
        /\ (hash # <<>> /\ Len(hash) <= 100 /\ WordOrHyphen(hash)) => response.status = 302

C8_Witness ==
  /\ Searched
  /\ FirstStage = 8
  /\ DomainPos # {}
  /\ NoOperatorPage
  /\ response.status = 302
  /\ response.location = ContactPath(ContactEntries[MaxOf(DomainPos)].hash)

\* the fetches of a request other than that of the index
ExistenceChecks == SelectSeq(fetchLog, LAMBDA u : u # IndexUrl)

\* the backends of the content-serving order up to the first that answers
\* definitively (one that is up); all of them when none does
BackendsToConsult ==
  LET up == {i \in 1..Len(STORAGE_ORDER) : storage[STORAGE_ORDER[i]].status = "up"}
  IN  SubSeq(STORAGE_ORDER, 1, IF up = {} THEN Len(STORAGE_ORDER) ELSE MinOf(up))

\* C9 as stated: for an operator/contact result the existence check consults
\* the storage backends in the content-serving order, stops at the first
\* definitive answer and passes over unreachable or unconfigured backends;
\* it is performed for no other result type.  When no backend is definitive
\* the redirect is the hash-based one.
C9_ExistenceCheckInBackendOrder ==
  /\ Searched =>
       ExistenceChecks = IF result.type = "contact" THEN BackendsToConsult ELSE <<>>
  /\ (/\ Searched
      /\ result.type = "contact"
      /\ \A b \in DOMAIN storage : storage[b].status # "up"
      /\ response.status = 302) => response.location = ContactPath(result.id)

HasGB ==
  \E i \in 1..Len(CountryEntries) :
    /\ CountryEntries[i].code = <<"G","B">>
    /\ CountryEntries[i].name = <<"U","n","i","t","e","d"," ","K","i","n","g","d","o","m">>

\* C10 as stated: with GB / "United Kingdom" in the index, the queries "uk"
\* and "united kingdom" (any case) return a country result, and the id of
\* every country result is the uppercase code.
C10_UkAndUnitedKingdomResolveToGB ==
  /\ (Searched /\ HasGB /\ QLow \in {<<"u","k">>, <<"u","n","i","t","e","d"," ","k","i","n","g","d","o","m">>})
       => result = Single("country", <<"G","B">>)
  /\ (Searched /\ result.type = "country") => result.id = toUpperCase(result.id)

\* the raw q without its leading and trailing white space
Stripped ==
  LET lead  == {i \in 0..Len(request) : \A j \in 1..i : IsSpace(request[j])}
      trail == {i \in 0..Len(request) : \A j \in (Len(request) - i + 1)..Len(request) :
                                          IsSpace(request[j])}
  IN  IF MaxOf(lead) = Len(request) THEN <<>>
      ELSE SubSeq(request, MaxOf(lead) + 1, Len(request) - MaxOf(trail))

AllowedChar(c) == IsWord(c) \/ IsSpace(c) \/ c \in {".", ":", "-", "@"}

Blank == Stripped = <<>>

TooLong == Len(Stripped) > 100

BadChars == \E i \in 1..Len(Stripped) : ~AllowedChar(Stripped[i])

Handled == response # NoResponse

\* C11: validateQuery accepts a raw input exactly when its trimmed form is
\* non-empty, at most 100 characters long and made of allowlisted characters
\* only; it then returns the trimmed input, letter case unchanged; otherwise
\* it reports empty for an absent or blank input, too long for a trimmed
\* length above 100 (before the characters are looked at) and invalid
\* characters in the remaining case.
C11_ValidateQuery ==
  LET v == validateQuery(request)
  IN  /\ v.ok <=> (~Blank /\ ~TooLong /\ ~BadChars)
      /\ v.ok => (v.q = Stripped /\ v.err = "")
      /\ Blank => v.err = "empty"
      /\ (~Blank /\ TooLong) => v.err = "Query too long"
      /\ (~Blank /\ ~TooLong /\ BadChars) => v.err = "Query contains invalid characters"
      /\ ~v.ok => v.q = <<>>
      /\ (Handled /\ ~Blank /\ (TooLong \/ BadChars)) => response.status = 400
      /\ Searched => (~Blank /\ ~TooLong /\ ~BadChars)

\* a padded query with capitals was accepted and classified as it was typed
C11_Witness ==
  /\ Searched
  /\ request # Stripped
  /\ Stripped # toLowerCase(Stripped)
  /\ validateQuery(request).q = Stripped

\* C12: a request whose q is missing, empty or blank is answered with a 302
\* to the site root, one whose q is too long or has a disallowed character
\* with a 400 page; neither issues an index fetch nor changes cachedIndex or
\* cacheExpiry.
C12_InvalidQueryStopsBeforeLoad ==
  [][(response = NoResponse /\ response' # NoResponse /\ (Blank \/ TooLong \/ BadChars)) =>
       /\ response' = IF Blank THEN Resp(302, <<"/">>, <<>>, NoHint)
                      ELSE Resp(400, <<>>, <<>>, NoHint)
       /\ fetchLog' = fetchLog
       /\ cachedIndex' = cachedIndex
       /\ cacheExpiry' = cacheExpiry
       /\ result' = result]_vars

\* an invalid request answered while the cached structure had expired
C12_Witness ==
  /\ Handled
  /\ ~Blank
  /\ BadChars
  /\ response.status = 400
  /\ fetchLog = <<>>
  /\ cachedIndex # <<>>
  /\ now >= cacheExpiry

SingleResult == Searched /\ result.type \notin {"multiple", "not_found"}

ValidInput == ~Blank /\ ~TooLong /\ ~BadChars

\* C13 as stated: a valid query is answered 302 for a single resolved match,
\* 200 for a multiple result, 404 for not_found and 503 when the index could
\* not be loaded or built.
C13_OneResponsePerOutcome ==
  (Handled /\ ValidInput) =>
    /\ SingleResult => response.status = 302
    /\ (Searched /\ result.type = "multiple") => response.status = 200
    /\ (Searched /\ result.type = "not_found") => response.status = 404
    /\ ~Searched => response.status = 503

\* C13 amended: the 302 is given for a single match whose id is non-empty and
\* passes isSafePath; a single match with an id that fails it is answered 503,
\* one without id 404.
C13_OneResponsePerOutcomeSafeId ==
  (Handled /\ ValidInput) =>
    /\ (SingleResult /\ result.id # <<>> /\ Len(result.id) <= 100 /\ WordOrHyphen(result.id))
         => (/\ response.status = 302
             /\ response.location =
                  <<"/">> \o RESULT_TYPE_PATHS(result.type) \o <<"/">> \o result.id \o <<"/">>)
    /\ (SingleResult /\ result.id # <<>> /\ ~(Len(result.id) <= 100 /\ WordOrHyphen(result.id)))
         => response.status = 503
    /\ (SingleResult /\ result.id = <<>>) => response.status = 404
    /\ (Searched /\ result.type = "multiple") => response.status = 200
    /\ (Searched /\ result.type = "not_found") => response.status = 404
    /\ ~Searched => (response.status = 503 /\ fetchLog = <<IndexUrl>>)

\* the index was fetched and the builder threw on it: 503, nothing cached
C13_Witness ==
  /\ Handled
  /\ ValidInput
  /\ buildThrows(raw)
  /\ fetchLog = <<IndexUrl>>
  /\ response.status = 503
  /\ cachedIndex = <<>>

FiveMinutes == 5 * 60 * 1000

\* the calls that fetched, built and returned a structure
Writers == {c \in CallIds : calls[c].pc = "returned" /\ calls[c].fetched}

\* C14: a successful load sets the expiry to the time it read at its start
\* plus five minutes; a loadIndex call made strictly before the expiry of a
\* cached structure returns that structure and issues no fetch; a call made
\* at or after it, or with nothing cached, issues a fetch before it returns.
C14_CacheServedUntilExpiry ==
  [][\A c \in CallIds :
       /\ (calls[c].pc = "idle" /\ calls'[c].pc # "idle") =>
            IF cachedIndex # <<>> /\ now < cacheExpiry
              THEN /\ calls'[c].pc = "returned"
                   /\ calls'[c].idx = cachedIndex
                   /\ fetchLog' = fetchLog
              ELSE /\ calls'[c].pc = "fetch"
                   /\ fetchLog' = Append(fetchLog, IndexUrl)
       /\ (calls[c].pc = "json" /\ calls'[c].pc = "returned") =>
            cacheExpiry' = calls[c].now + FiveMinutes]_vars

\* a call begun at the very expiry time of the cached structure fetched again
C14_Witness ==
  \E w \in Writers, d \in CallIds :
    /\ finished[1] = w
    /\ calls[d].pc # "idle"
    /\ calls[d].now = calls[w].now + FiveMinutes
    /\ calls[d].fetched
    /\ Len(fetchLog) = 2

\* C19: at every point of every interleaving the cache holds no structure,
\* or the complete structure built from the document of one call together
\* with that call's expiry; a structure a call returns is complete.
C19_CacheReplacedAtomically ==
  /\ \/ cachedIndex = <<>> /\ cacheExpiry = 0
     \/ \E w \in Writers :
          /\ cachedIndex = <<buildLookupMaps(calls[w].doc[1])>>
          /\ cacheExpiry = calls[w].now + INDEX_CACHE_TTL_MS
  /\ \A c \in CallIds :
       calls[c].pc = "returned" =>
         \E w \in Writers : calls[c].idx = <<buildLookupMaps(calls[w].doc[1])>>

\* a second structure replaced the first while a call was suspended
C19_Witness ==
  \E w \in Writers, v \in Writers, c \in CallIds :
    /\ w # v
    /\ calls[w].doc # calls[v].doc
    /\ calls[w].now # calls[v].now
    /\ finished[Len(finished)] = v
    /\ cachedIndex = calls[v].idx
    /\ cacheExpiry = calls[v].now + INDEX_CACHE_TTL_MS

\* the last call in the order of ending that wrote the cache
LastWriter == finished[MaxOf({i \in 1..Len(finished) : finished[i] \in Writers})]

\* C20: calls that find the cache absent or expired each issue their own
\* fetch, each returns the structure built from the document it fetched, a
\* call throws only for its own response, and the cache holds the structure
\* and expiry of the writer that ended last.
C20_LastWriterWins ==
  /\ Len(fetchLog) = Cardinality({c \in CallIds : calls[c].fetched})
  /\ \A c \in CallIds :
       /\ calls[c].pc \in {"fetch", "json"} => calls[c].fetched
       /\ c \in Writers => calls[c].idx = <<buildLookupMaps(calls[c].doc[1])>>
       /\ calls[c].pc = "threw" =>
            \/ calls[c].res \in {"http_error", "parse_error"}
            \/ \E i \in 1..Len(Field(calls[c].doc[1], "relays")) :
                 Field(calls[c].doc[1], "relays")[i] = JsonNull
  /\ Writers # {} =>
       /\ cachedIndex = calls[LastWriter].idx
       /\ cacheExpiry = calls[LastWriter].now + INDEX_CACHE_TTL_MS

\* two calls missed the cache, fetched different documents and the one that
\* had started first ended last: the cache holds its structure and expiry
C20_Witness ==
  \E c \in Writers, d \in Writers :
    /\ calls[c].now < calls[d].now
    /\ calls[c].doc # calls[d].doc
    /\ finished = <<d, c>>
    /\ cachedIndex = calls[c].idx
    /\ cacheExpiry = calls[c].now + INDEX_CACHE_TTL_MS
    /\ Len(fetchLog) = 2

Collections == {"relays", "autonomous_systems", "countries", "contacts", "families"}

\* the collections the index document lacks
Missing == Collections \ DOMAIN raw

\* a JSON object whose collections hold objects
ObjectDoc ==
  /\ "null" \notin DOMAIN raw
  /\ \A name \in Collections \cap DOMAIN raw :
       \A i \in 1..Len(raw[name]) : "null" \notin DOMAIN raw[name][i]

\* C16: the builder completes on an index document that lacks the families
\* collection, or any other, and leaves the maps of a missing collection
\* empty; without families no full fingerprint resolves to a family and no
\* query resolves through a family prefix.
C16_MissingCollectionsAreEmpty ==
  (ObjectDoc /\ Missing # {}) =>
    /\ ~buildThrows(raw)
    /\ cachedIndex # <<>> =>
         /\ "families" \in Missing =>
              Idx.familyIdMap = <<>> /\ Idx.familyPrefixMap = <<>>
         /\ "contacts" \in Missing =>
              Idx.contactDomainMap = <<>> /\ Idx.contactHashMap = <<>>
         /\ "countries" \in Missing => Idx.ccNameMap = <<>>
         /\ "relays" \in Missing =>
              Idx.relays = <<>> /\ Idx.fpMap = <<>> /\ Idx.nickMap = <<>> /\ Idx.ipMap = <<>>
    /\ (Handled /\ ValidInput /\ fetchLog = <<>>) => Searched
    /\ (Searched /\ "families" \in Missing) =>
         /\ RE_FULL_FINGERPRINT(Q) => result.type \in {"relay", "not_found"}
         /\ result.type = "family" =>
              \E i \in 1..Len(Relays) : Relays[i].fam = result.id /\ i \in StartPos

\* the id of a family of the complete document, queried against the same
\* relays without the families collection
C16_Witness ==
  /\ Searched
  /\ "families" \in Missing
  /\ Q = toLowerCase(FP_F)
  /\ result = NotFound
  /\ response.status = 404

\* the backends each STORAGE_ORDER of EnvOrders lists, in its order
ListedOrder ==
  CASE env.STORAGE_ORDER = <<>> -> <<"r2", "do", "failover">>
    [] env.STORAGE_ORDER = <<"d","o",",","r","2",",","f","a","i","l","o","v","e","r">> -> <<"do", "r2", "failover">>
    [] env.STORAGE_ORDER = <<" ","F","a","i","l","o","v","e","r"," ",","," ","R","2">> -> <<"failover", "r2">>
    [] env.STORAGE_ORDER = <<"s","3",",","d","o",",",",","r","2">> -> <<"do", "r2">>

\* those of them whose binding or URL is present
ListedChain == SelectSeq(ListedOrder, LAMBDA b : storage[b].status # "unconfigured")

ChainPos(b) == CHOOSE i \in 1..Len(ListedChain) : ListedChain[i] = b

RequestedPath ==
  IF contentRequest = <<>> \/ contentRequest[Len(contentRequest)] = "/"
    THEN contentRequest \o <<"i","n","d","e","x",".","h","t","m","l">>
    ELSE contentRequest

\* backend b returns content for the requested path
Holds(b) ==
  /\ storage[b].status = "up"
  /\ b = "failover" => env.FAILOVER_ENABLED
  /\ \/ RequestedPath \in storage[b].paths
     \/ /\ b # "failover"
        /\ ~endsWith(RequestedPath, <<".","h","t","m","l">>)
        /\ (RequestedPath \o <<"/","i","n","d","e","x",".","h","t","m","l">>) \in storage[b].paths

\* backend b is asked at all when its turn comes
Asks(b) == b = "failover" => env.FAILOVER_ENABLED

ServedName(b) ==
  CASE b = "r2" -> "cloudflare-r2" [] b = "do" -> "digitalocean-spaces"
    [] b = "failover" -> "failover-origin"

\* C17: on an edge-cache miss the backends are tried in the order of
\* STORAGE_ORDER, unknown and unconfigured names being passed over; the
\* response is that of the first backend in that order that returns
\* content, names it in X-Served-From, and no later backend is consulted;
\* when none returns content the response is 404.
C17_FirstBackendInOrderServes ==
  contentResponse.cacheStatus = "MISS" =>
    LET holders == {i \in 1..Len(ListedChain) : Holds(ListedChain[i])}
        last    == IF holders = {} THEN Len(ListedChain) ELSE MinOf(holders)
    IN  /\ \A i \in 1..Len(consulted) :
             \E k \in 1..last : ListedChain[k] = consulted[i].backend
        /\ \A i \in 1..Len(consulted), j \in 1..Len(consulted) :
             i < j => ChainPos(consulted[i].backend) <= ChainPos(consulted[j].backend)
        /\ \A k \in 1..last :
             Asks(ListedChain[k]) => \E i \in 1..Len(consulted) : consulted[i].backend = ListedChain[k]
        /\ IF holders = {}
             THEN contentResponse.status = 404
             ELSE /\ contentResponse.status = 200
                  /\ contentResponse.servedFrom = ServedName(ListedChain[last])

\* the order names do first: do fails, r2 serves, failover holds the page
\* too and is not consulted
C17_Witness ==
  /\ contentResponse.cacheStatus = "MISS"
  /\ ListedOrder = <<"do", "r2", "failover">>
  /\ storage["do"].status = "down"
  /\ Holds("r2")
  /\ Holds("failover")
  /\ contentResponse.servedFrom = "cloudflare-r2"
  /\ Len(consulted) >= 2
  /\ consulted[1].backend = "do"
  /\ consulted[Len(consulted)].backend = "r2"

\* the syncs run for marker m by calls with daily setting "true" and no force
DailySyncs(m) == {i \in 1..Len(syncLog) : syncLog[i].marker = m /\ syncLog[i].daily}

C21_CacheNeverGoesBack ==
  [][/\ cacheExpiry' >= cacheExpiry
     /\ \A c \in CallIds :
          (calls[c].pc = "json" /\ calls'[c].pc = "returned" /\ Writers # {}) =>
            calls[c].now >= calls[LastWriter].now]_vars

\* C21 amended: a call that fetched and built replaces the cache when its
\* res.json() settles, whatever is cached; cacheExpiry becomes the time that
\* call read at its start plus the lifetime, so it decreases exactly when the
\* call read an earlier time than the call whose structure was cached, and
\* no other step changes the cache.
C21_CacheFollowsLastEnding ==
  [][/\ \A c \in CallIds :
          (calls[c].pc = "json" /\ calls'[c].pc = "returned") =>
            /\ cachedIndex' = <<buildLookupMaps(calls[c].doc[1])>>
            /\ cacheExpiry' = calls[c].now + INDEX_CACHE_TTL_MS
            /\ cacheExpiry' < cacheExpiry <=>
                 (Writers # {} /\ calls[c].now < calls[LastWriter].now)
     /\ (\A c \in CallIds : ~(calls[c].pc = "json" /\ calls'[c].pc = "returned")) =>
          UNCHANGED <<cachedIndex, cacheExpiry>>]_vars

\* the call that read the earlier time ended after the other one had written
\* the cache: the expiry went back by a lifetime, to a time that has passed
C21_Witness ==
  \E c \in Writers, d \in Writers :
    /\ finished = <<d, c>>
    /\ calls[d].now = calls[c].now + INDEX_CACHE_TTL_MS
    /\ cacheExpiry = calls[c].now + INDEX_CACHE_TTL_MS
    /\ cacheExpiry <= now
    /\ cachedIndex = calls[c].idx

\* C22: a valid request that finds the cache absent or expired issues a
\* fetch, whatever happened to earlier requests.  When the reload fails
\* (non-OK status, unparsable body, exception of the builder) cachedIndex and
\* cacheExpiry keep their values and the request is answered 503 with no
\* search made, also when an expired structure is cached; when it succeeds
\* the cache holds the structure of the fetched document, the expiry is the
\* time of the request plus the lifetime, and the request is answered from
\* that structure.
C22_FailedReloadKeepsCache ==
  [][(response = NoResponse /\ response' # NoResponse /\ ValidInput
        /\ ~(cachedIndex # <<>> /\ now < cacheExpiry)) =>
       /\ fetchLog' = Append(fetchLog, IndexUrl)
       /\ \/ /\ cachedIndex' = cachedIndex
             /\ cacheExpiry' = cacheExpiry
             /\ result' = NoResult
             /\ response' = Resp(503, <<>>, <<>>, NoHint)
          \/ /\ ObjectDoc
             /\ cachedIndex' = <<buildLookupMaps(raw)>>
             /\ cacheExpiry' = now + FiveMinutes
             /\ result' = search(Stripped, cachedIndex'[1])
             /\ response' = respond(result')]_vars

\* the structure had expired and the reload failed: the request got 503 and
\* the expired structure and its expiry are still there
C22_Witness ==
  /\ Handled
  /\ ValidInput
  /\ fetchLog = <<IndexUrl>>
  /\ ObjectDoc
  /\ cachedIndex = <<buildLookupMaps(raw)>>
  /\ cacheExpiry = 1 + FiveMinutes
  /\ now >= cacheExpiry
  /\ result = NoResult
  /\ response.status = 503

\* the family ids of the relays whose nickname starts with the query
StartFams == {Relays[i].fam : i \in StartPos}

\* C23: when the nickname scan decides and two or more relays of the index
\* have a nickname that starts with the query, the result is the family
\* result of their family if all of them carry one and the same family id,
\* and a multiple result otherwise; with any prefix match the result is made
\* of prefix matches only.
C23_PrefixMatchesCollapseToFamily ==
  (Searched /\ FirstStage = 12) =>
    /\ Cardinality(StartPos) >= 2 =>
         IF Cardinality(StartFams) = 1 /\ StartFams # {<<>>}
           THEN result = Single("family", CHOOSE f \in StartFams : TRUE)
           ELSE /\ result.type = "multiple"
                /\ Len(result.matches) = Least(Cardinality(StartPos), MAX_RESULTS)
    /\ StartPos # {} =>
         /\ result.type = "relay" => \E i \in StartPos : Relays[i].f = result.id
         /\ \A m \in 1..Len(result.matches) :
              \E i \in StartPos : relayResult(Relays[i]) = result.matches[m]

\* the prefix matches the scan collects: the first MAX_RESULTS + 1 in index order
StartKept == {i \in StartPos : Cardinality({j \in StartPos : j < i}) <= MAX_RESULTS}

StartKeptFams == {Relays[i].fam : i \in StartKept}

\* C23 amended: the family test is made on the first 21 relays, in index
\* order, whose nickname starts with the query: the result is their family
\* if these carry one and the same family id, whatever the family of a 22nd
\* or later relay of that prefix, and otherwise a multiple result listing the
\* first 20; with any prefix match the result is made of prefix matches only.
C23_CollectedPrefixMatchesCollapse ==
  (Searched /\ FirstStage = 12) =>
    /\ Cardinality(StartPos) >= 2 =>
         IF Cardinality(StartKeptFams) = 1 /\ StartKeptFams # {<<>>}
           THEN result = Single("family", CHOOSE f \in StartKeptFams : TRUE)
           ELSE /\ result.type = "multiple"
                /\ Len(result.matches) = Least(Cardinality(StartPos), MAX_RESULTS)
                /\ \A m \in 1..Len(result.matches) :
                     \E i \in StartKept : relayResult(Relays[i]) = result.matches[m]
    /\ StartPos # {} =>
         /\ result.type = "relay" => \E i \in StartPos : Relays[i].f = result.id
         /\ \A m \in 1..Len(result.matches) :
              \E i \in StartPos : relayResult(Relays[i]) = result.matches[m]

\* 22 relays start with the query, the first 21 of one family and the last
\* of another: the answer is the redirect to the family of the first 21
C23_Witness ==
  /\ Searched
  /\ FirstStage = 12
  /\ Cardinality(StartPos) = MAX_RESULTS + 2
  /\ StartFams = {StrFam1, StrFam2}
  /\ result = Single("family", StrFam1)
  /\ response.status = 302

\* C24: every key of the fingerprint map is a string of 40 uppercase
\* hexadecimal characters, and every relay of the index that carries a
\* fingerprint is the answer to the query made of that fingerprint, in
\* whatever letter case the query is written.
C24_FingerprintKeysCanonical ==
  Searched =>
    /\ \A i \in 1..Len(Idx.fpMap) :
         /\ RE_FULL_FINGERPRINT(Idx.fpMap[i].k)
         /\ Idx.fpMap[i].k = toUpperCase(Idx.fpMap[i].k)
    /\ \A i \in 1..Len(Relays) :
         (Relays[i].f # <<>> /\ toUpperCase(Relays[i].f) = QUp) =>
           result = Single("relay", Relays[i].f)

\* the backends of the chain whose fetch fails: the R2 binding throws, the
\* fetch of Spaces is rejected or answers an error status, the failover
\* origin fails inside fetchFromFailover
Fails(b) == storage[b].status = "down" /\ Asks(b)

\* C25: on an edge-cache miss a backend whose fetch throws counts as a miss.
\* Every backend of the chain up to the one that serves is consulted, also
\* after one of them has thrown; the answer is 404 only when all of them have
\* been consulted and none returned content, and it then names in X-Error an
\* error of a backend that threw to the loop (R2 or Spaces, none later in the
\* chain having thrown for sure), or not-found when none did.
C25_ThrowingBackendIsAMiss ==
  contentResponse.cacheStatus = "MISS" =>
    LET holders == {i \in 1..Len(ListedChain) : Holds(ListedChain[i])}
        failing == {i \in 1..Len(ListedChain) : Fails(ListedChain[i])}
    IN  /\ contentResponse.status \in {200, 404}
        /\ \A i \in failing :
             /\ \E n \in 1..Len(consulted) : consulted[n].backend = ListedChain[i]
                  \/ \E h \in holders : h < i
             /\ \A h \in holders :
                  (i < h /\ \A j \in holders : h <= j) =>
                    /\ contentResponse.status = 200
                    /\ contentResponse.servedFrom = ServedName(ListedChain[h])
                    /\ consulted[Len(consulted)].backend = ListedChain[h]
        /\ contentResponse.status = 404 =>
             /\ holders = {}
             /\ \A k \in 1..Len(ListedChain) :
                  Asks(ListedChain[k]) =>
                    \E n \in 1..Len(consulted) : consulted[n].backend = ListedChain[k]
             /\ \/ /\ contentResponse.error = "not-found"
                   /\ \A i \in failing : ListedChain[i] # "r2"
                \/ \E i \in failing :
                     /\ ListedChain[i] \in {"r2", "do"}
                     /\ contentResponse.error = ListedChain[i]
                     /\ \A j \in failing : (j > i) => ListedChain[j] # "r2"
        /\ contentResponse.status = 200 => contentResponse.error = ""

\* R2 and Spaces both threw and the failover origin, last of the chain,
\* served the page
C25_Witness ==
  /\ contentResponse.cacheStatus = "MISS"
  /\ ListedChain = <<"r2", "do", "failover">>
  /\ Fails("r2")
  /\ Fails("do")
  /\ Holds("failover")
  /\ contentResponse.status = 200
  /\ contentResponse.servedFrom = "failover-origin"
  /\ Len(consulted) = 3

\* origin plus pathname of the request URL
RequestKey == Origin \o <<"/">> \o contentRequest

\* the edge-cache entries of the request's origin and pathname
CachedForRequest == {e \in edgeCache : e.key = RequestKey}

\* a content request is answered in this step
ContentServed ==
  contentResponse = NoContentResponse /\ contentResponse' # NoContentResponse /\ ~IsPurge

\* C26: a content request whose origin plus pathname is a key of the edge
\* cache, whatever its query string, is answered with the cached response and
\* X-Cache-Status HIT, no backend is consulted and the cache is left as it
\* is; otherwise the answer carries X-Cache-Status MISS, a response of a
\* backend is stored under origin plus pathname and a 404 is not stored; no
\* entry of the edge cache is a 404 and no key has a query string.
C26_EdgeCacheHitAndMiss ==
  [][/\ ContentServed =>
          IF CachedForRequest # {}
            THEN /\ \E e \in CachedForRequest :
                      contentResponse' = [e.response EXCEPT !.cacheStatus = "HIT"]
                 /\ consulted' = <<>>
                 /\ edgeCache' = edgeCache
            ELSE /\ contentResponse'.cacheStatus = "MISS"
                 /\ contentResponse'.status \in {200, 404}
                 /\ contentResponse'.status = 200 =>
                      edgeCache' = edgeCache \cup
                        {[key |-> RequestKey,
                          response |-> [contentResponse' EXCEPT !.cacheStatus = ""]]}
                 /\ contentResponse'.status = 404 => edgeCache' = edgeCache
     /\ \A e \in edgeCache' :
          /\ e.response.status = 200
          /\ \A i \in 1..Len(e.key) : e.key[i] # "?"]_vars

\* a request with a query string was answered from the entry of its pathname
C26_Witness ==
  /\ contentResponse.cacheStatus = "HIT"
  /\ contentResponse.status = 200
  /\ contentHttp.search = SearchV1
  /\ consulted = <<>>
  /\ \E e \in edgeCache : e.key = Origin \o <<"/">> \o contentRequest

\* the keys a purge body lists
ListedKeys ==
  {IF SubSeq(contentHttp.body.urls[i], 1, 4) = <<"h","t","t","p">>
     THEN contentHttp.body.urls[i]
   ELSE IF Head(contentHttp.body.urls[i]) = "/"
     THEN Origin \o contentHttp.body.urls[i]
   ELSE Origin \o <<"/">> \o contentHttp.body.urls[i] : i \in 1..Len(contentHttp.body.urls)}

SecretGiven == env.PURGE_SECRET # <<>> /\ contentHttp.secret = env.PURGE_SECRET

\* C27: a POST to /_purge is answered 501 when PURGE_SECRET is not
\* configured and 401 when it is and the X-Purge-Secret header is missing or
\* different, and the edge cache is then left as it is; with the configured
\* secret the entries deleted are those of the URLs the body lists and no
\* other; no other request deletes an entry.
C27_PurgeNeedsSecret ==
  [][/\ (contentResponse = NoContentResponse /\ contentResponse' # NoContentResponse /\ IsPurge) =>
          /\ env.PURGE_SECRET = <<>> => contentResponse'.status = 501
          /\ (env.PURGE_SECRET # <<>> /\ ~SecretGiven) => contentResponse'.status = 401
          /\ ~SecretGiven => edgeCache' = edgeCache
          /\ SecretGiven =>
               /\ contentResponse'.status \in {200, 400}
               /\ edgeCache' \subseteq edgeCache
               /\ \A e \in edgeCache \ edgeCache' : e.key \in ListedKeys
               /\ (contentHttp.body.json /\ ~contentHttp.body.purge_all) =>
                    /\ contentResponse'.status = 200
                    /\ \A e \in edgeCache' : e.key \notin ListedKeys
     /\ ~IsPurge => edgeCache \subseteq edgeCache']_vars

\* a purge with the configured secret that lists a cached path: its entry is
\* gone and the entry of another path is still there
C27_Witness ==
  /\ IsPurge
  /\ SecretGiven
  /\ contentResponse.status = 200
  /\ contentHttp.body.urls = <<PathA>>
  /\ ~contentHttp.body.purge_all
  /\ \E e \in edgeCache : e.key = Origin \o <<"/">> \o PathA \o <<"/">>
  /\ \A e \in edgeCache : e.key # Origin \o <<"/">> \o PathA

\* the run that has just ended: no upload succeeded in it
FailedRun(r) == ~(r.r2 = "ok" \/ r.do = "ok")

\* C28: a run in which allium fails or no upload succeeds leaves the stored
\* count one above the count it read at its start, a run in which an upload
\* succeeds leaves it at 0; a run starts the prune exactly when the count it
\* read is below 3, so that the run after three failed runs in a row starts
\* no prune.
C28_FailureCountGatesPrune ==
  /\ run.pc = "exited" =>
       failuresFile = IF FailedRun(run) THEN run.failures + 1 ELSE 0
  /\ run.pc \notin {"idle"} => (run.prune # "none" <=> run.failures < 3)
  /\ \A i \in 4..Len(runLog) :
       (\A j \in (i - 3)..(i - 1) : runLog[j].failed) => ~runLog[i].pruned

\* C29: purge_cdn is called only when every started upload has ended and one
\* of them with status 0, and uploads are started only after allium has
\* completed; a run in which no upload succeeded (allium failed, every
\* upload failed, none was enabled) ends with a failure status and without
\* purge; when the script ends the background prune is not running any more:
\* it was killed in a failed run, or had ended or was waited for.
C29_PurgeAfterUploadsPruneSettled ==
  /\ run.purged =>
       /\ run.r2 # "running" /\ run.do # "running"
       /\ run.r2 = "ok" \/ run.do = "ok"
  /\ (run.r2 # "off" \/ run.do # "off") =>
       run.pc \in {"wait", "check", "purge", "wait_prune", "exited"}
  /\ run.pc = "exited" =>
       /\ FailedRun(run) => run.exit # 0 /\ ~run.purged
       /\ run.exit = 0 => run.prune \in {"none", "finished"}
       /\ run.exit # 0 => run.prune \in {"none", "finished", "killed"}

\* the KEEP_BACKUPS most recent backups of a set
MostRecent(S) == {b \in S : Cardinality({c \in S : c > b}) < KEEP_BACKUPS}

\* the backups of location l that the run has removed
Removed(l) == prune.start[l] \ backups[l]

\* C30 as stated: a run deletes backups of a location only when more than
\* KEEP_BACKUPS + 2 existed there; the KEEP_BACKUPS most recent backups that
\* existed at its start are all still present after the run, and where it
\* deleted exactly KEEP_BACKUPS backups remain.
C30_PruneKeepsMostRecent ==
  prune.pc = "done" =>
    \A l \in Locations :
      /\ Removed(l) # {} => Cardinality(prune.start[l]) > KEEP_BACKUPS + 2
      /\ MostRecent(prune.start[l]) \subseteq backups[l]
      /\ Removed(l) # {} => Cardinality(backups[l]) = KEEP_BACKUPS

\* C30 amended: a run deletes backups of a location only when it counted
\* more than KEEP_BACKUPS + 2 there, and then from a new listing of the
\* location: only backups older than the KEEP_BACKUPS most recent of that
\* listing are removed, these most recent ones are all still present, every
\* local backup older than them is gone and so is every R2 backup older than
\* them whose purge did not fail; backups added after the listing stay.
C30_PruneKeepsMostRecentListed ==
  /\ \A l \in Locations :
       /\ Removed(l) # {} =>
            /\ prune.count[l] > KEEP_BACKUPS + 2
            /\ prune.listed[l] # {}
       /\ Removed(l) \subseteq prune.listed[l] \ MostRecent(prune.listed[l])
       /\ prune.kept \subseteq backups["r2"]
  /\ prune.pc = "done" =>
       /\ \A l \in Locations :
            /\ MostRecent(prune.listed[l]) \subseteq backups[l]
            /\ prune.listed[l] = {} => prune.start[l] \subseteq backups[l]
       /\ prune.listed["local"] # {} =>
            backups["local"] \cap prune.listed["local"] = MostRecent(prune.listed["local"])
       /\ prune.listed["r2"] # {} =>
            backups["r2"] \cap prune.listed["r2"] = MostRecent(prune.listed["r2"]) \cup prune.kept

\* eight backups in each location: the three oldest local ones are gone and
\* five remain; in R2 one purge failed and six remain
C30_Witness ==
  /\ prune.pc = "done"
  /\ Cardinality(prune.start["local"]) = KEEP_BACKUPS + 3
  /\ Cardinality(prune.start["r2"]) = KEEP_BACKUPS + 3
  /\ backups["local"] = MostRecent(prune.start["local"])
  /\ Cardinality(prune.kept) = 1
  /\ Cardinality(backups["r2"]) = KEEP_BACKUPS + 1

====
